---- MODULE Spec2Model ----
(***************************************************************************)
(* Admin_db: change-request workflow of the database administration tool.  *)
(*                                                                         *)
(* The browser side (services, dialogs, approval pages) is translated from *)
(* the TypeScript sources.  The server side (approval engine, metadata     *)
(* store, environment databases) is modelled from sections 3-5 of the      *)
(* specification.                                                          *)
(***************************************************************************)
EXTENDS Integers, Sequences, FiniteSets, TLC

(***************************************************************************)
(* Bounds                                                                  *)
(***************************************************************************)
MaxChanges == 2          \* change requests that may be submitted
MaxCalls == 2            \* approve calls the server processes at the same time
MaxRuns == 2             \* executions of predefined queries that reach the database

(***************************************************************************)
(* Values.  Every cell value is a string: "" is the empty form field,      *)
(* NULLV the SQL NULL, "n5" the number 5 (as opposed to the text "5").     *)
(***************************************************************************)
NULLV == "<null>"
UNDEF == "<undefined>"
NaN == "NaN"

None == << >>
Some(x) == << x >>

\* types/index.ts: enum Environment; the model uses two of the four
Environments == {"dev", "prod"}
Tables == {"products"}

\* init.sql, products table: id SERIAL PK, name NOT NULL, price NOT NULL,
\* category NOT NULL, description nullable (created_at, a timestamp the
\* database fills in, is left out)
Columns == {"id", "name", "price", "category", "description"}
PrimaryKey == "id"
Nullable == {"description"}

\* users of the metadata database and their roles
Users == {"admin", "user"}
Role(u) == IF u = "admin" THEN "admin" ELSE "regular_user"

\* what a user may type into the form fields of EditDialog
FormInput == [name : {"", "b"}, price : {"5", "abc"}, category : {"c"}, description : {""}]

\* comments a reviewer may type into the approval dialog ("" = left empty)
Comments == {""}

(***************************************************************************)
(* Browser side: DataService                                               *)
(***************************************************************************)
\* JavaScript Number(value) on the values of the model
Number(v) ==
  CASE v = "" -> "n0"
    [] v = "5" -> "n5"
    [] v \in {"n0", "n1", "n2", "n3", "n5"} -> v
    [] OTHER -> NaN

IsString(v) == v \notin {"n0", "n1", "n2", "n3", "n5", NULLV, UNDEF}

\* !data[field]
Falsy(v) == v \in {"", "n0", NULLV, UNDEF}

Includes(key, part) ==
  CASE part = "price" -> key = "price"
    [] part = "id" -> key \in {"id", "price_id"}
    [] part = "email" -> key = "email"
    [] OTHER -> FALSE

Get(data, key) == IF key \in DOMAIN data THEN data[key] ELSE UNDEF

\* DataService.validateRecordData: the set of error messages
validateRecordData(data, requiredFields) ==
  {<<f, "is required">> : f \in {g \in requiredFields : Falsy(Get(data, g)) \/ Get(data, g) = ""}}
  \cup
  {<<k, "must be a valid number">> :
      k \in {j \in DOMAIN data : /\ data[j] \notin {NULLV, UNDEF}
                                /\ Includes(j, "price")
                                /\ Number(data[j]) = NaN}}

\* DataService.sanitizeRecordData
sanitizeRecordData(data) ==
  LET kept == {k \in DOMAIN data : ~(data[k] = "" \/ data[k] = NULLV)}
  IN [k \in kept |->
        IF /\ IsString(data[k])
           /\ Number(data[k]) # NaN
           /\ (Includes(k, "price") \/ Includes(k, "id"))
        THEN Number(data[k])
        ELSE data[k]]


\* `${recordId}` in a URL, and the server reading it back as a key
PathParam(v) ==
  CASE v = "n1" -> "1" [] v = "n2" -> "2" [] v = "n3" -> "3" [] OTHER -> v

\* DataService.createRecord: the request it sends
createRecord(tableName, data) ==
  [method |-> "POST", path |-> <<"data", tableName, "records">>, body |-> data]

\* DataService.updateRecord
updateRecord(tableName, recordId, data) ==
  [method |-> "PUT", path |-> <<"data", tableName, "records", PathParam(recordId)>>,
   body |-> data]

\* deleteRecord sent with api.put, like updateRecord
deleteRecord_put(tableName, recordId) ==
  [method |-> "PUT", path |-> <<"data", tableName, "records", PathParam(recordId)>>,
   body |-> << >>]

\* DataService.deleteRecord
deleteRecord(tableName, recordId) ==
  [method |-> "DELETE", path |-> <<"data", tableName, "records", PathParam(recordId)>>,
   body |-> << >>]

(***************************************************************************)
(* Browser side: ApprovalService                                           *)
(***************************************************************************)
\* `${changeId}` in a URL
PathId(n) == <<"1", "2", "3", "4">>[n]

\* ApprovalService.approveChange
approveChange(changeId, comment) ==
  [method |-> "POST", path |-> <<"approvals", PathId(changeId), "approve">>,
   body |-> [approved |-> TRUE, comment |-> comment]]

\* rejectChange posting to the approve URL of the change
rejectChange_approveUrl(changeId, reason) ==
  [method |-> "POST", path |-> <<"approvals", PathId(changeId), "approve">>,
   body |-> [approved |-> FALSE, comment |-> reason]]

\* rejectChange leaving the reason out of the request body
rejectChange_noReason(changeId, reason) ==
  [method |-> "POST", path |-> <<"approvals", PathId(changeId), "reject">>,
   body |-> [approved |-> FALSE, comment |-> UNDEF]]

\* ApprovalService.rejectChange
rejectChange(changeId, reason) ==
  [method |-> "POST", path |-> <<"approvals", PathId(changeId), "reject">>,
   body |-> [approved |-> FALSE, comment |-> reason]]

\* ApprovalService.getPendingChanges / getChangeDetails / getChangeHistory
getPendingChanges == [method |-> "GET", path |-> <<"approvals", "pending">>, body |-> << >>]
getChangeDetails(changeId) == [method |-> "GET", path |-> <<"approvals", PathId(changeId)>>, body |-> << >>]
getChangeHistory == [method |-> "GET", path |-> <<"approvals", "history">>, body |-> << >>]

\* TableService.getTableData
getTableData(tableName) == [method |-> "GET", path |-> <<"tables", tableName, "data">>, body |-> << >>]

\* QueryService.executeQuery
executeQuery(tableName, queryExecution) ==
  [method |-> "POST", path |-> <<"tables", tableName, "query">>, body |-> queryExecution]

\* `comment || undefined` and `comment || 'Rejected from details view'`
OrElse(v, d) == IF Falsy(v) THEN d ELSE v

(***************************************************************************)
(* Server side, as section 4.4 and 5 of the specification describe it.     *)
(***************************************************************************)
\* the operation a request is routed to (README: API documentation)
Endpoint(req) ==
  CASE req.method = "POST" /\ Len(req.path) = 3 /\ req.path[1] = "data" -> "submitCreate"
    [] req.method = "PUT" /\ Len(req.path) = 4 /\ req.path[1] = "data" -> "submitUpdate"
    [] req.method = "DELETE" /\ Len(req.path) = 4 /\ req.path[1] = "data" -> "submitDelete"
    [] req.method = "POST" /\ Len(req.path) = 3 /\ req.path[1] = "approvals"
         /\ req.path[3] = "approve" -> "approve"
    [] req.method = "POST" /\ Len(req.path) = 3 /\ req.path[1] = "approvals"
         /\ req.path[3] = "reject" -> "reject"
    [] req.method = "GET" /\ Len(req.path) = 2 /\ req.path[1] = "approvals"
         /\ req.path[2] \in {"pending", "history"} -> req.path[2]
    [] req.method = "GET" /\ Len(req.path) = 2 /\ req.path[1] = "approvals" -> "details"
    [] req.method = "GET" /\ Len(req.path) = 3 /\ req.path[1] = "tables" -> "tableData"
    [] req.method = "POST" /\ Len(req.path) = 3 /\ req.path[1] = "tables"
         /\ req.path[3] = "query" -> "query"
    [] OTHER -> "notFound"

\* the key a path parameter denotes
RecordKey(p) ==
  CASE p = "1" -> "n1" [] p = "2" -> "n2" [] p = "3" -> "n3" [] OTHER -> p

\* the values a SERIAL id column takes
Serial(n) == <<"n1", "n2", "n3", "n4", "n5">>[n]

VARIABLES
  rows,              \* environment databases: env -> table -> set of rows
  nextRowId,         \* env -> table -> next value of the id sequence
  change_requests,   \* metadata store: sequence of change requests, id = index
  snapshots,         \* metadata store: sequence of snapshots, id = index
  currentEnv,        \* server: the active environment of each user
  handlers,          \* server: the approve calls being processed
  applied,           \* history: change id -> times its mutation reached the table
  page,              \* the approval page each user's browser shows, if any
  change,            \* ChangeDetails page of each user: the loaded change request
  changes,           \* PendingApprovals page of each user: ids of the loaded list
  waiting,           \* the approve calls each user's browser is waiting for
  answer,            \* the last answer the server gave to an approve or reject call
  deleted,           \* metadata store: ids of the snapshots that were deleted
  snapshotList,      \* SnapshotsPage of each user: ids of the loaded snapshots
  diffChange,        \* the change request a page formats: operation, old_data, new_data
  formatted,         \* ApprovalService.formatChangeForDisplay of it, once computed
  viewerDiff,        \* the diff DiffViewer renders from it, once rendered
  selectedQuery,     \* QueryExecutor: the selected predefined query, if any
  parameters,        \* QueryExecutor: parameter name -> entered value
  parameterErrors,   \* QueryExecutor: parameter name -> validation message
  queryResult,       \* QueryExecutor: result, the result of the last execution, if any
  queryError,        \* QueryExecutor: error, the error of the last execution, if any
  ran,               \* server: the statements the database was given, in order
  tabEnv,            \* useEnvironment of each tab: currentEnvironment
  tabRows,           \* DataGrid of each tab: the data loaded and where the server took it from
  tabChange,         \* EditDialog of each tab: the change request its last submission created
  notice,            \* the message each user sees (snackbar or error alert), if any
  tables,            \* TableList of each user: the tables listed
  tableCounts,       \* TableList of each user: table -> row count
  storedToken,       \* localStorage["admin_db_token"], None or Some(token)
  clock,             \* Date.now() in half seconds
  pathname,          \* the route the router shows
  unloading,         \* window.location.href was assigned, the page is still alive
  authUser,          \* useAuth user of each component, None or Some(username)
  isLoading,         \* useAuth isLoading of each component
  mounted,           \* the components that are mounted
  inflight,          \* requests sent and not yet answered
  rendered,          \* what PrivateRoute returned at its last render
  thrown,            \* message of the Error the last login rejected with
  loggedOut,         \* logout was called and no login has succeeded since
  errorState,        \* useErrorHandler: error, None or Some(ErrorDetails)
  errorCalls,        \* the calls made on the hook so far
  paginationModel,   \* DataGrid: paginationModel {page, pageSize}
  tableData,         \* DataGrid: the rows shown, None until the first answer
  outstanding,       \* getTableData requests sent and not yet answered
  pageChanges,       \* number of pagination changes made
  currentEnvironment,\* useEnvironment: currentEnvironment
  storedEnvironment, \* localStorage["admin_db_current_environment"], None or Some(env)
  envLoading,        \* useEnvironment: isLoading
  selectedEnv,       \* EnvironmentSelector: selectedEnv
  confirmDialogOpen, \* EnvironmentSelector: confirmDialogOpen
  switching,         \* the environment of the switch call in flight, None or Some(env)
  switchOutcome,     \* how the last switchEnvironment call ended
  switchCount,       \* number of switchEnvironment calls made
  availableEnvironments  \* useEnvironment: availableEnvironments, a set of names

\* the state of the pages and services outside the approval workflow
snapshotVars == <<deleted, snapshotList>>
diffVars == <<diffChange, formatted, viewerDiff>>
queryVars == <<selectedQuery, parameters, parameterErrors, queryResult, queryError, ran>>
tabVars == <<tabEnv, tabRows, tabChange>>
noticeVars == <<notice>>
listVars == <<tables, tableCounts>>
authVars == <<storedToken, clock, pathname, unloading, authUser, isLoading, mounted, inflight, rendered, thrown, loggedOut>>
errorVars == <<errorState, errorCalls>>
pageVars == <<paginationModel, tableData, outstanding, pageChanges>>
envVars == <<currentEnvironment, storedEnvironment, envLoading, selectedEnv, confirmDialogOpen, switching, switchOutcome, switchCount,
            availableEnvironments>>
toolVars == <<snapshotVars, diffVars, queryVars, tabVars, noticeVars, listVars, authVars, errorVars, pageVars, envVars>>

\* what the steps of one page or service leave alone among the others
snapshotFrame == <<diffVars, queryVars, tabVars, noticeVars, listVars, authVars, errorVars, pageVars, envVars>>
diffFrame == <<snapshotVars, queryVars, tabVars, noticeVars, listVars, authVars, errorVars, pageVars, envVars>>
queryFrame == <<snapshotVars, diffVars, tabVars, noticeVars, listVars, authVars, errorVars, pageVars, envVars>>
tabFrame == <<snapshotVars, diffVars, queryVars, noticeVars, listVars, authVars, errorVars, pageVars, envVars>>
noticeFrame == <<snapshotVars, diffVars, queryVars, tabVars, listVars, authVars, errorVars, pageVars, envVars>>
listFrame == <<snapshotVars, diffVars, queryVars, tabVars, noticeVars, authVars, errorVars, pageVars, envVars>>
authFrame == <<snapshotVars, diffVars, queryVars, tabVars, noticeVars, listVars, errorVars, pageVars, envVars>>
errorFrame == <<snapshotVars, diffVars, queryVars, tabVars, noticeVars, listVars, authVars, pageVars, envVars>>
pageFrame == <<snapshotVars, diffVars, queryVars, tabVars, noticeVars, listVars, authVars, errorVars, envVars>>
envFrame == <<snapshotVars, diffVars, queryVars, tabVars, noticeVars, listVars, authVars, errorVars, pageVars>>

vars == <<rows, nextRowId, change_requests, snapshots, currentEnv, handlers, applied,
          page, change, changes, waiting, answer, toolVars>>

serverVars == <<rows, nextRowId, change_requests, snapshots, currentEnv, handlers, applied,
               answer>>
clientVars == <<page, change, changes, waiting>>

\* init.sql: sample data, one row per table here
InitialRow == [id |-> "n1", name |-> "a", price |-> "n5", category |-> "c",
               description |-> NULLV]
InitialRows == [e \in Environments |-> [t \in Tables |-> {InitialRow}]]

\* the environment each user has selected when the run starts
InitialEnv == [u \in Users |-> IF u = "admin" THEN "prod" ELSE "dev"]

HandlerIds == 1..MaxCalls
ChangeIds == 1..Len(change_requests)

\* a server task: pc is free, received, claimed or mutated
IdleHandler == [pc |-> "free", change_id |-> 0, principal |-> "", comment |-> "",
                caller |-> "", origin |-> ""]

NoAnswer == [change_id |-> 0, endpoint |-> "", result |-> ""]

SnapshotInit ==
  /\ deleted = {}
  /\ snapshotList = [u \in Users |-> {}]

\* no change request is being formatted
DiffIdle ==
  /\ diffChange = None
  /\ formatted = None
  /\ viewerDiff = None

\* QueryExecutor as mounted, nothing run yet
QueryInit ==
  /\ selectedQuery = None
  /\ parameters = << >>
  /\ parameterErrors = << >>
  /\ queryResult = None
  /\ queryError = None
  /\ ran = << >>

\* two browser tabs (or sessions) in which the admin is logged in
Tabs == {"A", "B"}
TabUser(x) == "admin"

\* every tab has loaded the environment of its user, and nothing else
TabInit ==
  /\ tabEnv = [x \in Tabs |-> InitialEnv[TabUser(x)]]
  /\ tabRows = [x \in Tabs |-> None]
  /\ tabChange = [x \in Tabs |-> 0]

\* no message is shown
NoticeInit ==
  /\ notice = [u \in Users |-> None]

\* TableList before its first load
ListInit ==
  /\ tables = [u \in Users |-> {}]
  /\ tableCounts = [u \in Users |-> << >>]

\* the components that call useAuth, each with a state of its own
AuthHooks == {"Login", "PrivateRoute", "Layout"}

\* the page before anything is mounted, nothing stored
AuthIdle ==
  /\ storedToken = None
  /\ clock = 0
  /\ pathname = "/login"
  /\ unloading = FALSE
  /\ authUser = [c \in AuthHooks |-> None]
  /\ isLoading = [c \in AuthHooks |-> TRUE]
  /\ mounted = {}
  /\ inflight = {}
  /\ rendered = "nothing"
  /\ thrown = None
  /\ loggedOut = FALSE

\* useErrorHandler as mounted: useState(null)
ErrorInit ==
  /\ errorState = None
  /\ errorCalls = << >>

\* DataGrid as mounted: page 0, and the loadData() of the first effect in flight
PageInit ==
  /\ paginationModel = [page |-> 0, pageSize |-> 2]
  /\ tableData = None
  /\ outstanding = {[limit |-> 2, offset |-> 0]}
  /\ pageChanges = 0

\* the user of the environment selector
EnvUser == "admin"

\* useEnvironment as mounted in a fresh browser: the useState initial values,
\* loadEnvironmentState not yet answered
EnvInit ==
  /\ currentEnvironment = "dev"
  /\ storedEnvironment = None
  /\ availableEnvironments = {}
  /\ envLoading = TRUE
  /\ selectedEnv = ""
  /\ confirmDialogOpen = FALSE
  /\ switching = None
  /\ switchOutcome = "none"
  /\ switchCount = 0

ToolInit ==
  /\ SnapshotInit
  /\ DiffIdle
  /\ QueryInit
  /\ TabInit
  /\ NoticeInit
  /\ ListInit
  /\ AuthIdle
  /\ ErrorInit
  /\ PageInit
  /\ EnvInit

WorkflowInit ==
  /\ rows = InitialRows
  /\ nextRowId = [e \in Environments |-> [t \in Tables |-> 2]]
  /\ change_requests = << >>
  /\ snapshots = << >>
  /\ currentEnv = InitialEnv
  /\ handlers = [h \in HandlerIds |-> IdleHandler]
  /\ applied = << >>
  /\ page = [u \in Users |-> "none"]
  /\ change = [u \in Users |-> None]
  /\ changes = [u \in Users |-> {}]
  /\ waiting = [u \in Users |-> {}]
  /\ answer = NoAnswer

Init ==
  /\ ToolInit
  /\ WorkflowInit

\* the change id a path parameter denotes
ChangeKey(p) == CASE p = "1" -> 1 [] p = "2" -> 2 [] p = "3" -> 3 [] OTHER -> 0

RowsOf(u, t) == rows[currentEnv[u]][t]
RowWithId(table, key) == {r \in table : r.id = key}

(***************************************************************************)
(* submitChange                                                            *)
(***************************************************************************)
SubmitOp(req) ==
  CASE Endpoint(req) = "submitCreate" -> "CREATE"
    [] Endpoint(req) = "submitUpdate" -> "UPDATE"
    [] OTHER -> "DELETE"

SubmitKey(req) == IF SubmitOp(req) = "CREATE" THEN NULLV ELSE RecordKey(req.path[4])

\* validation of a submission: the table exists and, for UPDATE and DELETE,
\* the record id resolves to a row of the caller's environment
SubmitOutcome(u, req) ==
  CASE req.path[2] \notin Tables -> "TableNotFoundError"
    [] /\ SubmitOp(req) # "CREATE"
       /\ RowWithId(RowsOf(u, req.path[2]), SubmitKey(req)) = {} -> "RecordNotFoundError"
    [] OTHER -> "ok"

\* every request stores the body it was sent with, also a DELETE
NewChangeRequest_echo(u, req) ==
  [id |-> Len(change_requests) + 1,
   environment |-> currentEnv[u],
   table_name |-> req.path[2],
   record_id |-> SubmitKey(req),
   operation |-> SubmitOp(req),
   old_data |-> IF SubmitOp(req) = "CREATE" THEN None
                ELSE Some(CHOOSE r \in RowWithId(RowsOf(u, req.path[2]), SubmitKey(req)) : TRUE),
   new_data |-> Some(req.body),
   requested_by |-> u,
   status |-> "PENDING",
   reviewed_by |-> NULLV,
   reviewed_at |-> NULLV,
   comment |-> NULLV]

NewChangeRequest(u, req) ==
  [id |-> Len(change_requests) + 1,
   environment |-> currentEnv[u],
   table_name |-> req.path[2],
   record_id |-> SubmitKey(req),
   operation |-> SubmitOp(req),
   old_data |-> IF SubmitOp(req) = "CREATE" THEN None
                ELSE Some(CHOOSE r \in RowWithId(RowsOf(u, req.path[2]), SubmitKey(req)) : TRUE),
   new_data |-> IF SubmitOp(req) = "DELETE" THEN None ELSE Some(req.body),
   requested_by |-> u,
   status |-> "PENDING",
   reviewed_by |-> NULLV,
   reviewed_at |-> NULLV,
   comment |-> NULLV]

\* the effect of a submission on the server
SubmitEffect(u, req) ==
  IF SubmitOutcome(u, req) = "ok"
  THEN /\ change_requests' = Append(change_requests, NewChangeRequest(u, req))
       /\ applied' = Append(applied, 0)
       /\ UNCHANGED <<rows, nextRowId, snapshots, currentEnv, handlers, answer>>
  ELSE UNCHANGED serverVars

(***************************************************************************)
(* reject                                                                  *)
(***************************************************************************)
\* the approve call that holds the claim on a change request, if any
\* no claim is ever seen: the guard reads the status without locking it
Claimant_unlocked(id) == {}

Claimant(id) == {h \in HandlerIds : handlers[h].change_id = id
                                    /\ handlers[h].pc \in {"claimed", "mutated"}}

\* the review without the status check
ReviewOutcome_anyStatus(u, id) ==
  CASE id \notin ChangeIds -> "NotFoundError"
    [] Role(u) # "admin" -> "PermissionDeniedError"
    [] OTHER -> "ok"

\* the guard asks for the status only, whoever calls
ReviewOutcome_anyPrincipal(u, id) ==
  CASE id \notin ChangeIds -> "NotFoundError"
    [] change_requests[id].status # "PENDING" -> "NotPendingError"
    [] OTHER -> "ok"

ReviewOutcome(u, id) ==
  CASE id \notin ChangeIds -> "NotFoundError"
    [] change_requests[id].status # "PENDING" -> "NotPendingError"
    [] Role(u) # "admin" -> "PermissionDeniedError"
    [] OTHER -> "ok"

RejectEffect(u, id, reason) ==
  IF ReviewOutcome(u, id) = "ok"
  THEN /\ change_requests' = [change_requests EXCEPT ![id] =
             [@ EXCEPT !.status = "REJECTED", !.reviewed_by = u,
                       !.reviewed_at = "set", !.comment = reason]]
       /\ UNCHANGED <<rows, nextRowId, snapshots, currentEnv, applied>>
  ELSE UNCHANGED <<rows, nextRowId, snapshots, currentEnv, applied, change_requests>>

(***************************************************************************)
(* approve: the mutation and the snapshot                                  *)
(***************************************************************************)
TableOf(cr) == rows[cr.environment][cr.table_name]

\* UPDATE and DELETE need their row; CREATE needs nothing
Applicable(cr) ==
  cr.operation = "CREATE" \/ RowWithId(TableOf(cr), cr.record_id) # {}

\* INSERT of new_data: columns not given are NULL, the id is drawn from the sequence
InsertedRow(cr) ==
  LET nd == cr.new_data[1]
  IN [c \in Columns |->
        IF c \in DOMAIN nd THEN nd[c]
        ELSE IF c = PrimaryKey THEN Serial(nextRowId[cr.environment][cr.table_name])
        ELSE NULLV]

\* UPDATE ... SET the columns of new_data WHERE id = record_id
UpdatedRow(cr, r) ==
  LET nd == cr.new_data[1]
  IN [c \in Columns |-> IF c \in DOMAIN nd THEN nd[c] ELSE r[c]]

\* the table after the mutation of cr (INSERT / UPDATE / DELETE)
ApplyMutation(cr) ==
  CASE cr.operation = "CREATE" -> TableOf(cr) \cup {InsertedRow(cr)}
    [] cr.operation = "UPDATE" ->
         {IF r.id = cr.record_id THEN UpdatedRow(cr, r) ELSE r : r \in TableOf(cr)}
    [] OTHER -> {r \in TableOf(cr) : r.id # cr.record_id}

\* the snapshot read after the mutation
SnapshotPayload_after(cr) == ApplyMutation(cr)

\* the snapshot built from the old_data of the submission
SnapshotPayload_stale(cr) ==
  IF cr.operation = "CREATE" THEN TableOf(cr)
  ELSE {r \in TableOf(cr) : r.id # cr.record_id} \cup {cr.old_data[1]}

\* step 1: the snapshot payload is the current state of the table
SnapshotPayload(cr) == TableOf(cr)

NewSnapshot(cr) ==
  [id |-> Len(snapshots) + 1,
   environment |-> cr.environment,
   table_name |-> cr.table_name,
   snapshot_data |-> SnapshotPayload(cr),
   change_request_id |-> cr.id]

\* the mutation statement run outside a transaction: visible at once
MutateEffect_autocommit(h) ==
  /\ rows' = [rows EXCEPT ![change_requests[handlers[h].change_id].environment]
                                [change_requests[handlers[h].change_id].table_name] =
                    ApplyMutation(change_requests[handlers[h].change_id])]
  /\ applied' = [applied EXCEPT ![handlers[h].change_id] = @ + 1]
  /\ UNCHANGED nextRowId

\* the mutation statement of the transaction: nothing is visible before the commit
MutateEffect(h) ==
  UNCHANGED <<rows, nextRowId, applied>>

\* the effect of the mutation on the environment database
PublishMutation(cr) ==
  /\ rows' = [rows EXCEPT ![cr.environment][cr.table_name] = ApplyMutation(cr)]
  /\ nextRowId' = IF cr.operation = "CREATE"
                  THEN [nextRowId EXCEPT ![cr.environment][cr.table_name] = @ + 1]
                  ELSE nextRowId
  /\ applied' = [applied EXCEPT ![cr.id] = @ + 1]

\* steps 1-4 become visible together when the transaction commits
CommitEffect(h) ==
  LET cr == change_requests[handlers[h].change_id]
  IN /\ PublishMutation(cr)
     /\ snapshots' = Append(snapshots, NewSnapshot(cr))
     /\ change_requests' = [change_requests EXCEPT ![cr.id] =
           [@ EXCEPT !.status = "APPROVED", !.reviewed_by = handlers[h].principal,
                     !.reviewed_at = "set", !.comment = handlers[h].comment]]

\* a failure that is swallowed: the request is marked although nothing was applied
RollbackEffect_marks(h) ==
  /\ change_requests' = [change_requests EXCEPT ![handlers[h].change_id].status = "APPROVED"]
  /\ UNCHANGED <<rows, nextRowId, applied, snapshots>>

\* a failure before the commit rolls the transaction back
RollbackEffect(h) ==
  UNCHANGED <<rows, nextRowId, applied, snapshots, change_requests>>

(***************************************************************************)
(* Browser side: what a page does with the answer to approve / reject      *)
(***************************************************************************)
PendingIds(crs) == {i \in 1..Len(crs) : crs[i].status = "PENDING"}

\* ChangeDetails.executeApprovalAction after the await: reload on success
AfterDetails(u, outcome) ==
  IF outcome = "ok"
  THEN /\ change' = [change EXCEPT ![u] = Some(change_requests'[change[u][1].id])]
       /\ UNCHANGED changes
  ELSE UNCHANGED <<change, changes>>

\* PendingApprovals.handleQuickApprove / handleQuickReject after the await
AfterQuick(u, outcome) ==
  IF outcome = "ok"
  THEN /\ changes' = [changes EXCEPT ![u] = PendingIds(change_requests')]
       /\ UNCHANGED change
  ELSE UNCHANGED <<change, changes>>

After(u, origin, outcome) ==
  IF origin \in {"detailsApprove", "detailsReject"}
  THEN AfterDetails(u, outcome)
  ELSE AfterQuick(u, outcome)

FreeHandlers == {h \in HandlerIds : handlers[h].pc = "free"}

\* api.post of an approval request: reject is answered at once, approve is
\* handed to a server task and the browser waits for its answer
Call(u, req, origin) ==
  LET id == ChangeKey(req.path[2])
  IN \/ /\ Endpoint(req) = "approve"
        /\ FreeHandlers # {}
        /\ LET h == CHOOSE f \in FreeHandlers : \A g \in FreeHandlers : f <= g
           IN /\ handlers' = [handlers EXCEPT ![h] =
                    [pc |-> "received", change_id |-> id, principal |-> u,
                     comment |-> req.body.comment, caller |-> u, origin |-> origin]]
              /\ waiting' = [waiting EXCEPT ![u] = @ \cup {h}]
        /\ UNCHANGED <<rows, nextRowId, change_requests, snapshots, currentEnv, applied,
                       page, change, changes, answer>>
     \/ /\ Endpoint(req) = "reject"
        /\ Claimant(id) = {}
        /\ RejectEffect(u, id, req.body.comment)
        /\ answer' = [change_id |-> id, endpoint |-> "reject",
                      result |-> ReviewOutcome(u, id)]
        /\ After(u, origin, ReviewOutcome(u, id))
        /\ UNCHANGED <<waiting, handlers, page>>

(***************************************************************************)
(* Browser actions                                                         *)
(***************************************************************************)
isAdmin(u) == Role(u) = "admin"

RequiredFields == {c \in Columns : c \notin Nullable /\ c # PrimaryKey}

\* api.post / put / delete of a data request and the server's answer
Submit(u, req) ==
  /\ Endpoint(req) \in {"submitCreate", "submitUpdate", "submitDelete"}
  /\ Len(change_requests) < MaxChanges
  /\ SubmitEffect(u, req)
  /\ UNCHANGED clientVars

\* EditDialog.onSubmit: the dialog is opened from the grid of an admin, on a
\* row of the grid (edit) or on no row (create)
onSubmit(u, isEdit, recordData, input) ==
  LET data == [c \in Columns |->
                 IF c = PrimaryKey THEN (IF isEdit THEN recordData[c] ELSE "")
                 ELSE input[c]]
      validation == validateRecordData(data, RequiredFields)
      sanitizedData == sanitizeRecordData(data)
  IN /\ isAdmin(u)
     /\ IF validation # {}
        THEN UNCHANGED vars
        ELSE \E t \in Tables :
               /\ isEdit => recordData \in RowsOf(u, t)
               /\ Submit(u, IF isEdit
                            THEN updateRecord(t, recordData[PrimaryKey], sanitizedData)
                            ELSE createRecord(t, sanitizedData))

\* DataService.deleteRecord, called for a record id
callDeleteRecord(u, t, recordId) ==
  Submit(u, deleteRecord(t, recordId))

\* DataGrid.loadData: browsing the table of the current environment
loadData(u, t) ==
  /\ Endpoint(getTableData(t)) = "tableData"
  /\ UNCHANGED vars

\* ApprovalService.getChangeHistory: the history of change requests is read
loadChangeHistory(u) ==
  /\ isAdmin(u)
  /\ Endpoint(getChangeHistory) = "history"
  /\ UNCHANGED vars

\* QueryExecutor: a predefined query is run on the table
handleExecute(u, t, q) ==
  /\ Endpoint(executeQuery(t, [query_id |-> q, parameters |-> << >>])) = "query"
  /\ UNCHANGED vars

\* useEnvironment.switchEnvironment
switchEnvironment(u, env) ==
  /\ currentEnv[u] # env
  /\ currentEnv' = [currentEnv EXCEPT ![u] = env]
  /\ UNCHANGED <<rows, nextRowId, change_requests, snapshots, handlers, applied, answer,
                 clientVars>>

\* ChangeDetails: processing is set from the click to the answer
processing(u) ==
  \E h \in waiting[u] : handlers[h].origin \in {"detailsApprove", "detailsReject"}

\* a page that is unmounted loses its state.  Leaving a page while a call is
\* in flight has the effect of the call timing out first, so the pages are
\* entered with no call in flight.
Unmounted(u) ==
  waiting[u] = {} /\ UNCHANGED waiting

\* PendingApprovals is shown (route /approvals): loadPendingChanges
loadPendingChanges(u) ==
  /\ isAdmin(u)
  /\ Endpoint(getPendingChanges) = "pending"
  /\ page' = [page EXCEPT ![u] = "list"]
  /\ changes' = [changes EXCEPT ![u] = PendingIds(change_requests)]
  /\ change' = [change EXCEPT ![u] = None]
  /\ Unmounted(u)
  /\ UNCHANGED serverVars

\* ChangeDetails is shown (route /approvals/:changeId): loadChangeDetails
loadChangeDetails(u, id) ==
  /\ isAdmin(u)
  /\ id \in ChangeIds
  /\ Endpoint(getChangeDetails(id)) = "details"
  /\ page' = [page EXCEPT ![u] = "details"]
  /\ change' = [change EXCEPT ![u] = Some(change_requests[id])]
  /\ changes' = [changes EXCEPT ![u] = {}]
  /\ Unmounted(u)
  /\ UNCHANGED serverVars

\* ChangeDetails: the Approve and Reject buttons are rendered for a loaded
\* change whose status is PENDING
isPending(u) == change[u] # None /\ change[u][1].status = "PENDING"

\* ChangeDetails.executeApprovalAction
executeApprovalAction(u, isApproving, comment) ==
  /\ isAdmin(u)
  /\ ~processing(u)
  /\ isPending(u)
  /\ IF isApproving
     THEN Call(u, approveChange(change[u][1].id, OrElse(comment, UNDEF)), "detailsApprove")
     ELSE Call(u, rejectChange(change[u][1].id, OrElse(comment, "Rejected from details view")),
               "detailsReject")

\* PendingApprovals.handleQuickApprove
handleQuickApprove(u, changeId) ==
  /\ isAdmin(u)
  /\ changeId \in changes[u]
  /\ Call(u, approveChange(changeId, UNDEF), "quickApprove")

\* PendingApprovals.handleQuickReject
handleQuickReject(u, changeId) ==
  /\ isAdmin(u)
  /\ changeId \in changes[u]
  /\ Call(u, rejectChange(changeId, "Quick reject from list view"), "quickReject")

\* apiClient, timeout: 10000 - the browser gives up, the server task goes on
timeout(u, h) ==
  /\ h \in waiting[u]
  /\ waiting' = [waiting EXCEPT ![u] = @ \ {h}]
  /\ UNCHANGED <<serverVars, page, change, changes>>

(***************************************************************************)
(* Server steps of approve                                                 *)
(***************************************************************************)
\* the task ends: its answer reaches the browser unless it has stopped waiting
Respond(h, outcome) ==
  LET u == handlers[h].caller
  IN /\ handlers' = [handlers EXCEPT ![h] = IdleHandler]
     /\ answer' = [change_id |-> handlers[h].change_id, endpoint |-> "approve",
                   result |-> outcome]
     /\ UNCHANGED page
     /\ IF h \in waiting[u]
        THEN /\ waiting' = [waiting EXCEPT ![u] = @ \ {h}]
             /\ After(u, handlers[h].origin, outcome)
        ELSE UNCHANGED <<waiting, change, changes>>

\* the guard: NotPendingError, PermissionDeniedError, or the claim on the
\* request by the conditional update (a second caller waits for the first)
ApproveGuard(h) ==
  LET id == handlers[h].change_id
      outcome == ReviewOutcome(handlers[h].principal, id)
  IN /\ handlers[h].pc = "received"
     /\ UNCHANGED <<rows, nextRowId, change_requests, snapshots, currentEnv, applied>>
     /\ IF outcome # "ok"
        THEN Respond(h, outcome)
        ELSE /\ Claimant(id) = {}
             /\ handlers' = [handlers EXCEPT ![h].pc = "claimed"]
             /\ UNCHANGED <<clientVars, answer>>

\* the mutation statement runs inside the transaction
ApproveMutate(h) ==
  /\ handlers[h].pc = "claimed"
  /\ Applicable(change_requests[handlers[h].change_id])
  /\ MutateEffect(h)
  /\ handlers' = [handlers EXCEPT ![h].pc = "mutated"]
  /\ UNCHANGED <<change_requests, snapshots, currentEnv, clientVars, answer>>

\* snapshot, mutation and status become visible together
ApproveCommit(h) ==
  /\ handlers[h].pc = "mutated"
  /\ Applicable(change_requests[handlers[h].change_id])
  /\ CommitEffect(h)
  /\ Respond(h, "ok")
  /\ UNCHANGED currentEnv

\* the mutation fails, or something fails after it and before the commit
ApproveFail(h) ==
  /\ handlers[h].pc \in {"claimed", "mutated"}
  /\ RollbackEffect(h)
  /\ Respond(h, "ApplyFailedError")
  /\ UNCHANGED currentEnv

Next ==
  \/ \E u \in Users, isEdit \in BOOLEAN, input \in FormInput :
       \E recordData \in UNION {rows[e][t] : e \in Environments, t \in Tables} :
         onSubmit(u, isEdit, recordData, input) /\ UNCHANGED toolVars
  \/ \E u \in Users, t \in Tables, k \in {"n1", "n2"} : callDeleteRecord(u, t, k) /\ UNCHANGED toolVars
  \/ \E u \in Users, t \in Tables : loadData(u, t) /\ UNCHANGED toolVars
  \/ \E u \in Users : loadChangeHistory(u) /\ UNCHANGED toolVars
  \/ \E u \in Users, t \in Tables : handleExecute(u, t, "all") /\ UNCHANGED toolVars
  \/ \E u \in Users : loadPendingChanges(u) /\ UNCHANGED toolVars
  \/ \E u \in Users, id \in ChangeIds : loadChangeDetails(u, id) /\ UNCHANGED toolVars
  \/ \E u \in Users, a \in BOOLEAN, c \in Comments : executeApprovalAction(u, a, c) /\ UNCHANGED toolVars
  \/ \E u \in Users, id \in ChangeIds : handleQuickApprove(u, id) /\ UNCHANGED toolVars
  \/ \E u \in Users, id \in ChangeIds : handleQuickReject(u, id) /\ UNCHANGED toolVars
  \/ \E u \in Users, h \in HandlerIds : timeout(u, h) /\ UNCHANGED toolVars
  \/ \E h \in HandlerIds : ApproveGuard(h) /\ UNCHANGED toolVars
  \/ \E h \in HandlerIds : ApproveMutate(h) /\ UNCHANGED toolVars
  \/ \E h \in HandlerIds : ApproveCommit(h) /\ UNCHANGED toolVars
  \/ \E h \in HandlerIds : ApproveFail(h) /\ UNCHANGED toolVars

Spec == Init /\ [][Next]_vars

(***************************************************************************)
(* Properties                                                              *)
(***************************************************************************)
Status(id) == change_requests[id].status
SnapshotsOf(id) == {i \in 1..Len(snapshots) : snapshots[i].change_request_id = id}
ApproveOrigins == {"detailsApprove", "quickApprove"}

\* the step in which the approve task h ends with success
Approves(h) ==
  /\ handlers[h].pc = "mutated"
  /\ handlers'[h].pc = "free"
  /\ answer' = [change_id |-> handlers[h].change_id, endpoint |-> "approve", result |-> "ok"]
  /\ Status(handlers[h].change_id) = "PENDING"
  /\ change_requests'[handlers[h].change_id].status = "APPROVED"

\* C1: a table of an environment changes only in the step that applies a
\* successful approve, asked for as an approve, of a change request for that
\* environment and table; submissions, rejections and reads change no row.
C1_RowsChangeOnlyByApprove ==
  [][\A e \in Environments, t \in Tables :
       rows'[e][t] # rows[e][t] =>
         \E h \in HandlerIds :
           /\ Approves(h)
           /\ handlers[h].origin \in ApproveOrigins
           /\ change_requests[handlers[h].change_id].environment = e
           /\ change_requests[handlers[h].change_id].table_name = t
           /\ rows'[e][t] = ApplyMutation(change_requests[handlers[h].change_id])]_vars

\* C1 (witness): a table differs from its initial rows, after submissions,
\* a rejection and an approval
C1_Witness ==
  /\ \E e \in Environments, t \in Tables : rows[e][t] # InitialRows[e][t]
  /\ \E id \in ChangeIds : Status(id) = "REJECTED"
  /\ \E id \in ChangeIds : Status(id) = "APPROVED"

\* the answer of the server to a call of endpoint e on change request id
Answered(id, e, result) == answer' = [change_id |-> id, endpoint |-> e, result |-> result]

\* C2: the status of a change request only moves from PENDING to APPROVED or
\* to REJECTED and never changes afterwards; an approve or a reject that finds
\* the request not PENDING fails with NotPendingError.
C2_StatusMachine ==
  [][/\ \A id \in ChangeIds :
          change_requests'[id].status # Status(id) =>
            /\ Status(id) = "PENDING"
            /\ change_requests'[id].status \in {"APPROVED", "REJECTED"}
     /\ \A h \in HandlerIds :
          ApproveGuard(h) /\ Status(handlers[h].change_id) # "PENDING" =>
            Answered(handlers[h].change_id, "approve", "NotPendingError")
     /\ \A u \in Users, id \in ChangeIds :
          handleQuickReject(u, id) /\ Status(id) # "PENDING" =>
            Answered(id, "reject", "NotPendingError")
     /\ \A u \in Users, c \in Comments :
          (executeApprovalAction(u, FALSE, c) /\ Status(change[u][1].id) # "PENDING") =>
            Answered(change[u][1].id, "reject", "NotPendingError")]_vars

\* C2 (witness): a reject of an APPROVED request was answered NotPendingError
\* while another request is REJECTED
C2_Witness ==
  /\ answer.endpoint = "reject"
  /\ answer.result = "NotPendingError"
  /\ Status(answer.change_id) = "APPROVED"
  /\ \E id \in ChangeIds : Status(id) = "REJECTED"

\* the step in which the approve task h returns to its caller
Ends(h) == handlers[h].pc # "free" /\ handlers'[h].pc = "free"

\* another approve call on the same change request is in progress
Concurrent(h) ==
  \E g \in HandlerIds \ {h} :
    handlers[g].pc # "free" /\ handlers[g].change_id = handlers[h].change_id

ServerData == <<rows, nextRowId, change_requests, snapshots, applied>>

CallsOn(id) == {h \in HandlerIds : handlers[h].pc # "free" /\ handlers[h].change_id = id}

\* an approve call in progress whose caller has given up waiting (timeout)
Abandoned(h) == handlers[h].pc # "free" /\ h \notin waiting[handlers[h].caller]

OthersSame(id) ==
  /\ Len(change_requests') = Len(change_requests)
  /\ \A j \in ChangeIds \ {id} : change_requests'[j] = change_requests[j]

\* what a reject leaves of the request itself
RejectedWith(u, id, reason) ==
  change_requests'[id] = [change_requests[id] EXCEPT
      !.status = "REJECTED", !.comment = reason, !.reviewed_by = u, !.reviewed_at = "set"]

Created(u, op, t, key) ==
  /\ Len(change_requests') = Len(change_requests) + 1
  /\ \A j \in ChangeIds : change_requests'[j] = change_requests[j]
  /\ LET cr == change_requests'[Len(change_requests')]
     IN /\ cr.status = "PENDING"
        /\ cr.requested_by = u
        /\ cr.environment = currentEnv[u]
        /\ cr.operation = op
        /\ cr.table_name = t
        /\ cr.record_id = key
  /\ UNCHANGED <<rows, nextRowId, snapshots>>

C9_CreateRoundTrip ==
  [][\A h \in HandlerIds :
       (Approves(h) /\ change_requests[handlers[h].change_id].operation = "CREATE") =>
         LET cr == change_requests[handlers[h].change_id]
             before == rows[cr.environment][cr.table_name]
             after == rows'[cr.environment][cr.table_name]
             snap == snapshots'[Len(snapshots')]
         IN /\ Len(snapshots') = Len(snapshots) + 1
            /\ snap.change_request_id = cr.id
            /\ snap.environment = cr.environment /\ snap.table_name = cr.table_name
            /\ snap.snapshot_data = before
            /\ \E r \in after \ before :
                 /\ after = before \cup {r}
                 /\ \A c \in DOMAIN cr.new_data[1] : r[c] = cr.new_data[1][c]
                 /\ r \notin snap.snapshot_data]_vars

\* C9 (witness): the CREATE submitted through EditDialog is approved, the
\* table holds a row with the values typed in and the Snapshot does not
C9_Witness ==
  \E id \in ChangeIds, s \in 1..Len(snapshots) :
    /\ change_requests[id].operation = "CREATE"
    /\ Status(id) = "APPROVED"
    /\ snapshots[s].change_request_id = id
    /\ \E r \in TableOf(change_requests[id]) :
         /\ r.name = "b" /\ r.price = "n5" /\ r.id = "n2"
         /\ r \notin snapshots[s].snapshot_data

\* C10: when an UPDATE or DELETE is approved after its row has changed since
\* the submission, the Snapshot holds the row as it is at the approval, not
\* the old_data of the submission; the old_data and new_data stored in a
\* change request never change.
C10_SnapshotAtApproval ==
  [][/\ \A h \in HandlerIds :
          LET cr == change_requests[handlers[h].change_id]
          IN (/\ Approves(h)
              /\ cr.operation \in {"UPDATE", "DELETE"}
              /\ cr.old_data[1] \notin TableOf(cr)) =>
               LET snap == snapshots'[Len(snapshots')]
               IN /\ snap.change_request_id = cr.id
                  /\ RowWithId(snap.snapshot_data, cr.record_id)
                       = RowWithId(TableOf(cr), cr.record_id)
                  /\ cr.old_data[1] \notin snap.snapshot_data
     /\ \A id \in ChangeIds :
          /\ change_requests'[id].old_data = change_requests[id].old_data
          /\ change_requests'[id].new_data = change_requests[id].new_data]_vars

\* C10 (witness): an UPDATE or DELETE was approved whose Snapshot holds, for
\* its record, a row that differs from the old_data of the submission
C10_Witness ==
  \E id \in ChangeIds, s \in 1..Len(snapshots) :
    /\ change_requests[id].operation \in {"UPDATE", "DELETE"}
    /\ Status(id) = "APPROVED"
    /\ snapshots[s].change_request_id = id
    /\ RowWithId(snapshots[s].snapshot_data, change_requests[id].record_id) # {}
    /\ change_requests[id].old_data[1] \notin snapshots[s].snapshot_data

\* C12: a stored CREATE has old_data null and new_data non-null, a DELETE has
\* new_data null and old_data non-null, an UPDATE has both non-null; and no
\* step (approve, reject, a change of the underlying row) changes the
\* old_data or new_data of a stored request.
C12_DataShape ==
  [][/\ \A id \in 1..Len(change_requests') :
          LET cr == change_requests'[id]
          IN CASE cr.operation = "CREATE" -> cr.old_data = None /\ cr.new_data # None
               [] cr.operation = "DELETE" -> cr.old_data # None /\ cr.new_data = None
               [] cr.operation = "UPDATE" -> cr.old_data # None /\ cr.new_data # None
               [] OTHER -> FALSE
     /\ \A id \in ChangeIds :
          <<change_requests'[id].old_data, change_requests'[id].new_data>>
            = <<change_requests[id].old_data, change_requests[id].new_data>>]_vars

\* an UPDATE and a DELETE are stored, one approved and one rejected, and the
\* row the approved one captured has changed since
C12_Witness ==
  \E i, j \in ChangeIds :
    /\ change_requests[i].operation = "UPDATE"
    /\ change_requests[j].operation = "DELETE"
    /\ {Status(i), Status(j)} = {"APPROVED", "REJECTED"}
    /\ \E k \in {i, j} : Status(k) = "APPROVED"
                          /\ change_requests[k].old_data[1] \notin TableOf(change_requests[k])

(***************************************************************************)
(* Diff of a change request                                                *)
(***************************************************************************)
\* the fields of the records that are compared, in insertion order, and
\* their values
DiffKeys == <<"a", "b">>
DiffValues == {"n1", "n2", NULLV}

\* JSON objects over these fields
DiffObjects ==
  UNION {[K -> DiffValues] : K \in SUBSET {DiffKeys[i] : i \in 1..Len(DiffKeys)}}

\* the change requests handed to formatChangeForDisplay
DiffChanges ==
  {[operation |-> "CREATE", old_data |-> None, new_data |-> Some(n)] : n \in DiffObjects}
  \cup {[operation |-> "DELETE", old_data |-> Some(o), new_data |-> None] : o \in DiffObjects}
  \cup {[operation |-> "UPDATE", old_data |-> Some(o), new_data |-> Some(n)] :
          o \in DiffObjects, n \in DiffObjects}

\* Object.keys(obj)
ObjectKeys(obj) ==
  LET In(k) == k \in DOMAIN obj IN SelectSeq(DiffKeys, In)

\* new Set([...Object.keys(oldData), ...Object.keys(newData)])
AllKeys(oldData, newData) ==
  LET Fresh(k) == k \notin DOMAIN oldData
  IN ObjectKeys(oldData) \o SelectSeq(ObjectKeys(newData), Fresh)

\* ApprovalService.parseJsonData: null or the object
parseJsonData(data) == IF data = None THEN None ELSE data

DiffEntry(key, oldValue, newValue, type) ==
  [field |-> key, oldValue |-> oldValue, newValue |-> newValue, type |-> type]

\* ApprovalService.generateDiff
generateDiff(oldData, newData) ==
  CASE oldData = None /\ newData # None ->
         LET ks == ObjectKeys(newData[1])
         IN [i \in 1..Len(ks) |-> DiffEntry(ks[i], NULLV, newData[1][ks[i]], "added")]
    [] oldData # None /\ newData = None ->
         LET ks == ObjectKeys(oldData[1])
         IN [i \in 1..Len(ks) |-> DiffEntry(ks[i], oldData[1][ks[i]], NULLV, "removed")]
    [] oldData # None /\ newData # None ->
         LET Differs(k) == Get(oldData[1], k) # Get(newData[1], k)
             ks == SelectSeq(AllKeys(oldData[1], newData[1]), Differs)
         IN [i \in 1..Len(ks) |->
              LET oldValue == Get(oldData[1], ks[i])
                  newValue == Get(newData[1], ks[i])
              IN DiffEntry(ks[i], oldValue, newValue,
                           IF oldValue = UNDEF THEN "added"
                           ELSE IF newValue = UNDEF THEN "removed" ELSE "changed")]
    [] OTHER -> << >>

\* DiffViewer.generateDiff testing oldValue !== newValue before the added and
\* removed cases
DiffViewer_generateDiff_changedFirst(operation, oldData, newData) ==
  CASE operation = "CREATE" /\ newData # None ->
         LET ks == ObjectKeys(newData[1])
         IN [i \in 1..Len(ks) |-> DiffEntry(ks[i], NULLV, newData[1][ks[i]], "added")]
    [] operation = "DELETE" /\ oldData # None ->
         LET ks == ObjectKeys(oldData[1])
         IN [i \in 1..Len(ks) |-> DiffEntry(ks[i], oldData[1][ks[i]], NULLV, "removed")]
    [] operation = "UPDATE" /\ oldData # None /\ newData # None ->
         LET ks == AllKeys(oldData[1], newData[1])
         IN [i \in 1..Len(ks) |->
              LET oldValue == Get(oldData[1], ks[i])
                  newValue == Get(newData[1], ks[i])
              IN DiffEntry(ks[i], oldValue, newValue,
                           CASE oldValue # newValue -> "changed"
                             [] OTHER -> "unchanged")]
    [] OTHER -> << >>

\* DiffViewer.generateDiff
DiffViewer_generateDiff(operation, oldData, newData) ==
  CASE operation = "CREATE" /\ newData # None ->
         LET ks == ObjectKeys(newData[1])
         IN [i \in 1..Len(ks) |-> DiffEntry(ks[i], NULLV, newData[1][ks[i]], "added")]
    [] operation = "DELETE" /\ oldData # None ->
         LET ks == ObjectKeys(oldData[1])
         IN [i \in 1..Len(ks) |-> DiffEntry(ks[i], oldData[1][ks[i]], NULLV, "removed")]
    [] operation = "UPDATE" /\ oldData # None /\ newData # None ->
         LET ks == AllKeys(oldData[1], newData[1])
         IN [i \in 1..Len(ks) |->
              LET oldValue == Get(oldData[1], ks[i])
                  newValue == Get(newData[1], ks[i])
              IN DiffEntry(ks[i], oldValue, newValue,
                           CASE oldValue = UNDEF /\ newValue # UNDEF -> "added"
                             [] oldValue # UNDEF /\ newValue = UNDEF -> "removed"
                             [] oldValue # newValue -> "changed"
                             [] OTHER -> "unchanged")]
    [] OTHER -> << >>

\* ApprovalService.formatChangeForDisplay
formatChangeForDisplay ==
  /\ diffChange # None
  /\ formatted = None
  /\ LET oldData == parseJsonData(diffChange[1].old_data)
         newData == parseJsonData(diffChange[1].new_data)
     IN formatted' = Some([oldData |-> oldData, newData |-> newData,
                           diff |-> generateDiff(oldData, newData)])
  /\ UNCHANGED <<serverVars, clientVars, diffChange, viewerDiff>>

\* <DiffViewer oldData={formattedChange.oldData} newData={formattedChange.newData}
\*             operation={change.operation} />
DiffViewer ==
  /\ formatted # None
  /\ viewerDiff = None
  /\ viewerDiff' = Some(DiffViewer_generateDiff(diffChange[1].operation,
                                                formatted[1].oldData, formatted[1].newData))
  /\ UNCHANGED <<serverVars, clientVars, diffChange, formatted>>

DiffInit ==
  /\ WorkflowInit
  /\ SnapshotInit
  /\ QueryInit
  /\ TabInit
  /\ NoticeInit
  /\ ListInit
  /\ AuthIdle
  /\ ErrorInit
  /\ PageInit
  /\ EnvInit
  /\ diffChange \in {Some(c) : c \in DiffChanges}
  /\ formatted = None
  /\ viewerDiff = None

DiffNext ==
  \/ formatChangeForDisplay /\ UNCHANGED diffFrame
  \/ DiffViewer /\ UNCHANGED diffFrame

SpecDiff == DiffInit /\ [][DiffNext]_vars

\* the entry the diff of a change request owes to one field
DiffOwed(c, k) ==
  CASE c.operation = "CREATE" -> DiffEntry(k, NULLV, c.new_data[1][k], "added")
    [] c.operation = "DELETE" -> DiffEntry(k, c.old_data[1][k], NULLV, "removed")
    [] OTHER ->
         LET oldValue == Get(c.old_data[1], k)
             newValue == Get(c.new_data[1], k)
         IN DiffEntry(k, oldValue, newValue,
                      CASE k \notin DOMAIN c.old_data[1] -> "added"
                        [] k \notin DOMAIN c.new_data[1] -> "removed"
                        [] oldValue = newValue -> "unchanged"
                        [] OTHER -> "changed")

DiffFields(c) ==
  CASE c.operation = "CREATE" -> DOMAIN c.new_data[1]
    [] c.operation = "DELETE" -> DOMAIN c.old_data[1]
    [] OTHER -> DOMAIN c.old_data[1] \cup DOMAIN c.new_data[1]

\* one entry per field, each the entry the field owes
DiffAsClaimed(c, diff) ==
  /\ Len(diff) = Cardinality(DiffFields(c))
  /\ {diff[i] : i \in 1..Len(diff)} = {DiffOwed(c, k) : k \in DiffFields(c)}

\* the diff DiffViewer renders is the claimed one
DiffViewerAsClaimed ==
  viewerDiff # None => DiffAsClaimed(diffChange[1], viewerDiff[1])

\* C13: the diff of a change request has exactly one entry per field: CREATE
\* all 'added' with oldValue null, DELETE all 'removed' with newValue null,
\* UPDATE one entry per key of the union, typed unchanged, changed, added or
\* removed; for the diff formatChangeForDisplay returns and the one
\* DiffViewer renders.
C13_DiffPerField ==
  /\ formatted # None => DiffAsClaimed(diffChange[1], formatted[1].diff)
  /\ DiffViewerAsClaimed

\* the entries of a diff that are not 'unchanged'
NotUnchanged(diff) ==
  LET Differs(entry) == entry.type # "unchanged" IN SelectSeq(diff, Differs)

\* C28: for every well-formed change request, the entries of
\* DiffViewer.generateDiff whose type is not 'unchanged' are exactly the
\* entries ApprovalService.generateDiff returns for the same oldData and
\* newData: same fields, same old and new values, same types.
C28_DiffsAgree ==
  (formatted # None /\ viewerDiff # None) =>
     /\ Len(NotUnchanged(viewerDiff[1])) = Len(formatted[1].diff)
     /\ \A i \in 1 .. Len(formatted[1].diff) :
          /\ NotUnchanged(viewerDiff[1])[i].field = formatted[1].diff[i].field
          /\ NotUnchanged(viewerDiff[1])[i].oldValue = formatted[1].diff[i].oldValue
          /\ NotUnchanged(viewerDiff[1])[i].newValue = formatted[1].diff[i].newValue
          /\ NotUnchanged(viewerDiff[1])[i].type = formatted[1].diff[i].type

\* an UPDATE with an unchanged field and an added field, both diffs computed
C28_Witness ==
  /\ formatted # None /\ viewerDiff # None
  /\ diffChange[1].operation = "UPDATE"
  /\ \E i \in 1 .. Len(viewerDiff[1]) : viewerDiff[1][i].type = "unchanged"
  /\ \E i \in 1 .. Len(formatted[1].diff) : formatted[1].diff[i].type = "added"

(***************************************************************************)
(* Predefined queries                                                      *)
(***************************************************************************)
\* numbers are kept in tenths, so that 100.5 is a value
Num(n) == n * 10

\* what a user types into the field of a parameter (around the bounds of
\* the parameter), and the number it reads as
InputValues(paramName) ==
  IF paramName = "limit" THEN {"", "abc", "0", "1", "100", "100.5", "101"}
  ELSE {"", "abc", "-1", "0", "10000", "10001"}

IsNumeric(v) == v \notin {"", "abc", NULLV, UNDEF}

NumberOf(v) ==
  CASE v = "-1" -> Num(-1)
    [] v = "0" -> Num(0)
    [] v = "1" -> Num(1)
    [] v = "n0" -> Num(0)
    [] v = "n10" -> Num(10)
    [] v = "100" -> Num(100)
    [] v = "100.5" -> Num(100) + 5
    [] v = "101" -> Num(101)
    [] v = "n1000" -> Num(1000)
    [] v = "10000" -> Num(10000)
    [] v = "10001" -> Num(10001)

\* parseFloat(value) and parseInt(value) of a numeric text; isNaN otherwise
parseFloat(v) == NumberOf(v)
parseInt(v) ==
  IF NumberOf(v) >= 0 THEN (NumberOf(v) \div 10) * 10 ELSE -((-NumberOf(v)) \div 10) * 10

\* queries.json: products_price_range and products_expensive; the sql is
\* the template cut at its {placeholder} tokens
QueryIds == {"products_price_range", "products_expensive"}

\* queries with one text parameter that is marked required, for each way a
\* QueryParameter can have no default (the key left out, or null) or have one
RequiredQueryIds ==
  {"required_default_absent", "required_default_null", "required_with_default",
   "optional_default_absent"}
RequiredQuery(id) ==
  [id |-> id,
   sql |-> <<"SELECT id, name, price, category FROM products WHERE category = ",
             "{category}">>,
   parameters |->
     <<[name |-> "category", type |-> "text",
        default |-> CASE id = "required_default_null" -> NULLV
                      [] id = "required_with_default" -> "Electronics"
                      [] OTHER -> UNDEF,
        required |-> id # "optional_default_absent",
        min |-> 0, max |-> 0]>>]

PredefinedQuery(id) ==
  IF id \in RequiredQueryIds THEN RequiredQuery(id)
  ELSE IF id = "products_price_range"
  THEN [id |-> id,
        sql |-> <<"SELECT id, name, price, category FROM products WHERE price BETWEEN ",
                  "{min_price}", " AND ", "{max_price}", " ORDER BY price">>,
        parameters |->
          <<[name |-> "min_price", type |-> "decimal", default |-> "n0", required |-> FALSE,
             min |-> Num(0), max |-> Num(10000)],
            [name |-> "max_price", type |-> "decimal", default |-> "n1000", required |-> FALSE,
             min |-> Num(0), max |-> Num(10000)]>>]
  ELSE [id |-> id,
        sql |-> <<"SELECT id, name, price, category FROM products ORDER BY price DESC LIMIT ",
                  "{limit}">>,
        parameters |->
          <<[name |-> "limit", type |-> "integer", default |-> "n10", required |-> FALSE,
             min |-> Num(1), max |-> Num(100)]>>]

ParametersOf(id) ==
  {PredefinedQuery(id).parameters[i] : i \in 1..Len(PredefinedQuery(id).parameters)}

\* boundary values are refused as well
validateParameter_exclusive(parameter, value) ==
  IF value \in {NULLV, UNDEF, ""}
  THEN IF parameter.required /\ parameter.default = NULLV
       THEN Some(<<parameter.name, "is required">>) ELSE None
  ELSE CASE parameter.type = "integer" ->
              IF ~IsNumeric(value) THEN Some(<<"Must be a valid integer">>)
              ELSE IF parseInt(value) <= parameter.min
                   THEN Some(<<"Must be at least", parameter.min>>)
              ELSE IF parseInt(value) >= parameter.max
                   THEN Some(<<"Must be at most", parameter.max>>)
              ELSE None
         [] parameter.type = "decimal" ->
              IF ~IsNumeric(value) THEN Some(<<"Must be a valid number">>)
              ELSE IF parseFloat(value) <= parameter.min
                   THEN Some(<<"Must be at least", parameter.min>>)
              ELSE IF parseFloat(value) >= parameter.max
                   THEN Some(<<"Must be at most", parameter.max>>)
              ELSE None
         [] OTHER -> None

\* QueryService.validateParameter: the message, or null
validateParameter(parameter, value) ==
  IF value \in {NULLV, UNDEF, ""}
  THEN IF parameter.required /\ parameter.default = NULLV
       THEN Some(<<parameter.name, "is required">>) ELSE None
  ELSE CASE parameter.type = "integer" ->
              IF ~IsNumeric(value) THEN Some(<<"Must be a valid integer">>)
              ELSE IF parseInt(value) < parameter.min
                   THEN Some(<<"Must be at least", parameter.min>>)
              ELSE IF parseInt(value) > parameter.max
                   THEN Some(<<"Must be at most", parameter.max>>)
              ELSE None
         [] parameter.type = "decimal" ->
              IF ~IsNumeric(value) THEN Some(<<"Must be a valid number">>)
              ELSE IF parseFloat(value) < parameter.min
                   THEN Some(<<"Must be at least", parameter.min>>)
              ELSE IF parseFloat(value) > parameter.max
                   THEN Some(<<"Must be at most", parameter.max>>)
              ELSE None
         [] OTHER -> None

\* QueryExecutor.validateParameters: the errors by parameter name
validateParameters(id, values) ==
  LET Bad == {p \in ParametersOf(id) : validateParameter(p, Get(values, p.name)) # None}
  IN [n \in {p.name : p \in Bad} |->
       validateParameter(CHOOSE p \in Bad : p.name = n, Get(values, n))[1]]

\* Query Template Engine (specification 4.3): the value a parameter is given,
\* its validation against type, min and max, and the execution with the
\* values bound to the template
SuppliedValue(parameter, values) ==
  IF Get(values, parameter.name) \in {NULLV, UNDEF, ""}
  THEN parameter.default ELSE values[parameter.name]

Violates(parameter, v) ==
  IF parameter.type = "text" THEN v \in {NULLV, UNDEF} ELSE
  \/ ~IsNumeric(v)
  \/ parameter.type = "integer" /\ NumberOf(v) % 10 # 0
  \/ NumberOf(v) < parameter.min
  \/ NumberOf(v) > parameter.max

ExecuteOutcome(execution) ==
  IF execution.query_id \notin QueryIds \cup RequiredQueryIds
  THEN [kind |-> "UnknownQueryError", parameter |-> ""]
  ELSE LET ps == PredefinedQuery(execution.query_id).parameters
           bad == {i \in 1..Len(ps) : Violates(ps[i], SuppliedValue(ps[i], execution.parameters))}
       IN IF bad = {} THEN [kind |-> "ok", parameter |-> ""]
          ELSE [kind |-> "ParameterValidationError",
                parameter |-> ps[CHOOSE i \in bad : \A j \in bad : i <= j].name]

\* typeof value === 'string': typed text, not a default of queries.json
IsText(v) == v \notin {"n0", "n10", "n1000", NULLV, UNDEF}

\* value.replace(/'/g, "''")
EscapeQuotes(v) == IF v = "o'k" THEN "o''k" ELSE v

\* the {placeholder} token of a parameter name
Placeholder(key) ==
  CASE key = "min_price" -> "{min_price}"
    [] key = "max_price" -> "{max_price}"
    [] key = "limit" -> "{limit}"
    [] key = "category" -> "{category}"
    [] OTHER -> "{}"

RECURSIVE Splice(_, _)
Splice(sql, values) ==
  IF sql = << >> THEN << >>
  ELSE LET keys == {k \in DOMAIN values : Placeholder(k) = Head(sql)}
       IN (IF keys = {} THEN <<Head(sql)>>
           ELSE LET v == values[CHOOSE k \in keys : TRUE]
                IN IF IsText(v) THEN <<"'", EscapeQuotes(v), "'">> ELSE <<v>>)
          \o Splice(Tail(sql), values)

\* QueryService.formatSqlForDisplay: the SQL preview, values put into the text
formatSqlForDisplay(sql, values) == Splice(sql, values)

\* the values are put into the text of the statement
Statement_spliced(execution) ==
  LET q == PredefinedQuery(execution.query_id)
  IN [query_id |-> q.id,
      sql |-> formatSqlForDisplay(q.sql, execution.parameters),
      bound |-> [i \in 1..Len(q.parameters) |->
                  SuppliedValue(q.parameters[i], execution.parameters)]]

\* the statement handed to the database: the template and the bound values
Statement(execution) ==
  LET q == PredefinedQuery(execution.query_id)
  IN [query_id |-> q.id,
      sql |-> q.sql,
      bound |-> [i \in 1..Len(q.parameters) |->
                  SuppliedValue(q.parameters[i], execution.parameters)]]

\* QueryExecutor: a query is selected; its parameters take their defaults
selectQuery(id) ==
  /\ selectedQuery # Some(id)
  /\ selectedQuery' = Some(id)
  /\ parameters' = [n \in {p.name : p \in {q \in ParametersOf(id) :
                                               q.default \notin {NULLV, UNDEF}}} |->
                      (CHOOSE p \in ParametersOf(id) : p.name = n).default]
  /\ parameterErrors' = << >>
  /\ queryResult' = None
  /\ queryError' = None
  /\ UNCHANGED <<serverVars, clientVars, ran>>

\* QueryExecutor.handleParameterChange
handleParameterChange(paramName, value) ==
  /\ selectedQuery # None
  /\ paramName \in {p.name : p \in ParametersOf(selectedQuery[1])}
  /\ parameters' = [n \in DOMAIN parameters \cup {paramName} |->
                      IF n = paramName THEN value ELSE parameters[n]]
  /\ parameterErrors' = [n \in DOMAIN parameterErrors \ {paramName} |-> parameterErrors[n]]
  /\ UNCHANGED <<serverVars, clientVars, selectedQuery, queryResult, queryError, ran>>

\* QueryExecutor.handleExecute: validateParameters, then queryService.executeQuery
QueryExecutor_handleExecute(tableName) ==
  /\ selectedQuery # None
  /\ Len(ran) < MaxRuns
  /\ LET errors == validateParameters(selectedQuery[1], parameters)
         req == executeQuery(tableName, [query_id |-> selectedQuery[1],
                                          parameters |-> parameters])
     IN /\ parameterErrors' = errors
        /\ IF DOMAIN errors # {}
           THEN UNCHANGED <<queryResult, queryError, ran>>
           ELSE /\ Endpoint(req) = "query"
                /\ IF ExecuteOutcome(req.body).kind = "ok"
                   THEN /\ ran' = Append(ran, Statement(req.body))
                        /\ queryResult' = Some([query_id |-> req.body.query_id,
                                                 parameters |-> req.body.parameters])
                        /\ queryError' = None
                   ELSE /\ queryError' = Some(ExecuteOutcome(req.body))
                        /\ UNCHANGED <<queryResult, ran>>
  /\ UNCHANGED <<serverVars, clientVars, selectedQuery, parameters>>

QueryNext ==
  \/ \E id \in QueryIds : selectQuery(id) /\ UNCHANGED queryFrame
  \/ \E n \in {"min_price", "max_price", "limit"} : \E v \in InputValues(n) :
       handleParameterChange(n, v) /\ UNCHANGED queryFrame
  \/ \E t \in Tables : QueryExecutor_handleExecute(t) /\ UNCHANGED queryFrame

SpecQuery == Init /\ [][QueryNext]_vars

\* the parameters of the selected query whose entered value is a number
\* outside [min, max], and whether all are numbers inside it with one on a bound
OutOfRange ==
  {p \in ParametersOf(selectedQuery[1]) :
     /\ IsNumeric(Get(parameters, p.name))
     /\ \/ NumberOf(parameters[p.name]) < p.min
        \/ NumberOf(parameters[p.name]) > p.max}

AtBoundary ==
  /\ \A p \in ParametersOf(selectedQuery[1]) :
       /\ IsNumeric(Get(parameters, p.name))
       /\ NumberOf(parameters[p.name]) >= p.min
       /\ NumberOf(parameters[p.name]) <= p.max
       /\ p.type = "integer" => NumberOf(parameters[p.name]) % 10 = 0
  /\ \E p \in ParametersOf(selectedQuery[1]) :
       NumberOf(parameters[p.name]) \in {p.min, p.max}

directApprove(u, changeId) ==
  /\ ~isAdmin(u)
  /\ Call(u, approveChange(changeId, UNDEF), "api")

DirectNext ==
  \/ \E u \in Users, input \in FormInput :
       onSubmit(u, FALSE, InitialRow, input) /\ UNCHANGED toolVars
  \/ \E u \in Users, t \in Tables, k \in {"n1", "n2"} :
       callDeleteRecord(u, t, k) /\ UNCHANGED toolVars
  \/ \E u \in Users : loadPendingChanges(u) /\ UNCHANGED toolVars
  \/ \E u \in Users, id \in ChangeIds : handleQuickApprove(u, id) /\ UNCHANGED toolVars
  \/ \E u \in Users, id \in 1..MaxChanges : directApprove(u, id) /\ UNCHANGED toolVars
  \/ \E h \in HandlerIds : ApproveGuard(h) /\ UNCHANGED toolVars
  \/ \E h \in HandlerIds : ApproveMutate(h) /\ UNCHANGED toolVars
  \/ \E h \in HandlerIds : ApproveCommit(h) /\ UNCHANGED toolVars
  \/ \E h \in HandlerIds : ApproveFail(h) /\ UNCHANGED toolVars

SpecDirect == Init /\ [][DirectNext]_vars

\* C15: an approve call of a principal that is not an admin, on a PENDING
\* change request, fails with PermissionDeniedError and changes neither the
\* request, which stays PENDING, nor any table, nor the Snapshots; no call of
\* such a principal ever gets past the guard.
C15_NonAdminDenied ==
  [][/\ \A h \in HandlerIds :
          (/\ ApproveGuard(h)
           /\ ~isAdmin(handlers[h].principal)
           /\ handlers[h].change_id \in ChangeIds
           /\ Status(handlers[h].change_id) = "PENDING") =>
            /\ Answered(handlers[h].change_id, "approve", "PermissionDeniedError")
            /\ Ends(h)
            /\ ServerData' = ServerData
            /\ change_requests'[handlers[h].change_id].status = "PENDING"
     /\ \A h \in HandlerIds :
          handlers'[h].pc \in {"claimed", "mutated"} => isAdmin(handlers'[h].principal)]_vars

\* a regular user's approve call on a request was refused, the request is
\* still PENDING, unapplied and without Snapshot, while another request was
\* approved by the admin
C15_Witness ==
  \E id \in ChangeIds :
    /\ answer = [change_id |-> id, endpoint |-> "approve", result |-> "PermissionDeniedError"]
    /\ Status(id) = "PENDING"
    /\ applied[id] = 0
    /\ SnapshotsOf(id) = {}
    /\ \E j \in ChangeIds : Status(j) = "APPROVED"

tabSwitchEnvironment(x, env) ==
  /\ switchEnvironment(TabUser(x), env)
  /\ tabEnv' = [tabEnv EXCEPT ![x] = env]
  /\ tabRows' = [tabRows EXCEPT ![x] = None]
  /\ tabChange' = [tabChange EXCEPT ![x] = 0]

\* DataGrid.loadData in a tab: GET /tables/{t}/data, answered from the
\* environment the server holds for the user
tabLoadData(x, t) ==
  /\ Endpoint(getTableData(t)) = "tableData"
  /\ tabRows' = [tabRows EXCEPT ![x] = Some([environment |-> currentEnv[TabUser(x)],
                                               rows |-> RowsOf(TabUser(x), t)])]
  /\ UNCHANGED <<serverVars, clientVars, tabEnv, tabChange>>

\* EditDialog.onSubmit in a tab: the answer carries change_request_id
tabSubmit(x, input) ==
  /\ onSubmit(TabUser(x), FALSE, InitialRow, input)
  /\ tabChange' = IF Len(change_requests') > Len(change_requests)
                  THEN [tabChange EXCEPT ![x] = Len(change_requests')]
                  ELSE tabChange
  /\ UNCHANGED <<tabEnv, tabRows>>

TabsNext ==
  \/ \E x \in Tabs, env \in Environments : tabSwitchEnvironment(x, env) /\ UNCHANGED tabFrame
  \/ \E x \in Tabs, t \in Tables : tabLoadData(x, t) /\ UNCHANGED tabFrame
  \/ \E x \in Tabs, input \in FormInput : tabSubmit(x, input) /\ UNCHANGED tabFrame

SpecTabs == Init /\ [][TabsNext]_vars

\* C17: an operation acts on the environment of the call that asks for it:
\* the data a tab has loaded and the change request a tab has submitted
\* belong to the environment selected in that tab, whatever another tab or
\* session has switched to in between.
C17_EnvironmentFromCall ==
  \A x \in Tabs :
    /\ tabRows[x] # None => tabRows[x][1].environment = tabEnv[x]
    /\ tabChange[x] # 0 => change_requests[tabChange[x]].environment = tabEnv[x]

(***************************************************************************)
(* What the reviewer is shown                                              *)
(***************************************************************************)
ErrorNotice(text) == Some([kind |-> "error", text |-> text])
SuccessNotice == Some([kind |-> "success", text |-> "ok"])

\* what the page that issued a call shows when the call is answered:
\* handleQuickApprove (snackbars), handleQuickReject (console.error only),
\* executeApprovalAction (setError in the catch, nothing on success)
Shown(u, origin, outcome) ==
  CASE origin = "quickApprove" ->
         IF outcome = "ok" THEN SuccessNotice ELSE ErrorNotice(outcome)
    [] origin = "quickReject" -> notice[u]
    [] origin \in {"detailsApprove", "detailsReject"} ->
         IF outcome = "ok" THEN notice[u] ELSE ErrorNotice(outcome)
    [] OTHER -> notice[u]

\* an approve call ends in this step and its browser is still waiting for it
AnswersBrowser(h) == Ends(h) /\ h \in waiting[handlers[h].caller]

\* the answer of an approve call reaches its page
showApproveAnswer(h) ==
  IF AnswersBrowser(h)
  THEN notice' = [notice EXCEPT ![handlers[h].caller] =
                    Shown(handlers[h].caller, handlers[h].origin, answer'.result)]
  ELSE UNCHANGED notice

\* the answer of a reject call reaches its page
showRejectAnswer(u, origin) ==
  notice' = [notice EXCEPT ![u] = Shown(u, origin, answer'.result)]

\* the timeout of apiClient rejects the call: the catch of the page runs
showTimeout(u, h) ==
  notice' = [notice EXCEPT ![u] = Shown(u, handlers[h].origin, "timeout")]

NoticeNext ==
  \/ \E u \in Users, input \in FormInput :
       onSubmit(u, FALSE, InitialRow, input) /\ UNCHANGED toolVars
  \/ \E u \in Users : loadPendingChanges(u) /\ UNCHANGED toolVars
  \/ \E u \in Users, id \in ChangeIds : loadChangeDetails(u, id) /\ UNCHANGED toolVars
  \/ \E u \in Users, id \in ChangeIds :
       handleQuickApprove(u, id) /\ UNCHANGED toolVars
  \/ \E u \in Users, id \in ChangeIds :
       handleQuickReject(u, id) /\ showRejectAnswer(u, "quickReject") /\ UNCHANGED noticeFrame
  \/ \E u \in Users :
       executeApprovalAction(u, TRUE, "") /\ UNCHANGED toolVars
  \/ \E u \in Users :
       executeApprovalAction(u, FALSE, "")
         /\ showRejectAnswer(u, "detailsReject") /\ UNCHANGED noticeFrame
  \/ \E u \in Users, h \in HandlerIds :
       timeout(u, h) /\ showTimeout(u, h) /\ UNCHANGED noticeFrame
  \/ \E h \in HandlerIds : ApproveGuard(h) /\ showApproveAnswer(h) /\ UNCHANGED noticeFrame
  \/ \E h \in HandlerIds : ApproveMutate(h) /\ UNCHANGED toolVars
  \/ \E h \in HandlerIds : ApproveCommit(h) /\ showApproveAnswer(h) /\ UNCHANGED noticeFrame
  \/ \E h \in HandlerIds : ApproveFail(h) /\ showApproveAnswer(h) /\ UNCHANGED noticeFrame

SpecNotice == Init /\ [][NoticeNext]_vars

\* C18: no failure is swallowed: when an approve or a reject that a reviewer
\* issued is answered with a failure, the reviewer's page shows an error.
C18_FailuresShown ==
  [][/\ \A h \in HandlerIds :
          AnswersBrowser(h) /\ answer'.result # "ok" =>
            /\ notice'[handlers[h].caller] # None
            /\ notice'[handlers[h].caller][1].kind = "error"
     /\ \A u \in Users, id \in ChangeIds :
          handleQuickReject(u, id) /\ answer'.result # "ok" =>
            /\ notice'[u] # None
            /\ notice'[u][1].kind = "error"
     /\ \A u \in Users :
          executeApprovalAction(u, FALSE, "") /\ answer'.result # "ok" =>
            /\ notice'[u] # None
            /\ notice'[u][1].kind = "error"]_vars

(***************************************************************************)
(* Table list and row counts                                               *)
(***************************************************************************)
\* how the requests of one load of the list end
LoadOutcomes == {"ok", "countFails", "listFails"}

\* GET /tables/{t}/data?limit=1: total_count of the table in the environment
\* of the user
total_count(u, t) == Cardinality(RowsOf(u, t))

\* TableService.getTableRowCount as seen by loadTables: the count, or 0 from
\* the catch around it
getTableRowCount(u, t, outcome) ==
  IF outcome = "countFails" THEN 0 ELSE total_count(u, t)

\* TableList.loadTables
loadTables(u, outcome) ==
  /\ IF outcome = "listFails"
     THEN /\ tables' = [tables EXCEPT ![u] = {}]
          /\ UNCHANGED tableCounts
     ELSE /\ tables' = [tables EXCEPT ![u] = Tables]
          /\ tableCounts' = [tableCounts EXCEPT ![u] =
                               [t \in Tables |-> getTableRowCount(u, t, outcome)]]
  /\ UNCHANGED <<serverVars, clientVars>>

\* the record count chip: tableCounts[table]?.toLocaleString() || '0'
Chip(u, t) ==
  IF t \in DOMAIN tableCounts[u] THEN tableCounts[u][t] ELSE 0

ListNext ==
  \/ \E u \in Users, input \in FormInput :
       onSubmit(u, FALSE, InitialRow, input) /\ UNCHANGED toolVars
  \/ \E u \in Users, t \in Tables, k \in {"n1", "n2"} :
       callDeleteRecord(u, t, k) /\ UNCHANGED toolVars
  \/ \E u \in Users : loadPendingChanges(u) /\ UNCHANGED toolVars
  \/ \E u \in Users, id \in ChangeIds : handleQuickApprove(u, id) /\ UNCHANGED toolVars
  \/ \E h \in HandlerIds : ApproveGuard(h) /\ UNCHANGED toolVars
  \/ \E h \in HandlerIds : ApproveMutate(h) /\ UNCHANGED toolVars
  \/ \E h \in HandlerIds : ApproveCommit(h) /\ UNCHANGED toolVars
  \/ \E h \in HandlerIds : ApproveFail(h) /\ UNCHANGED toolVars
  \/ \E u \in Users, outcome \in LoadOutcomes : loadTables(u, outcome) /\ UNCHANGED listFrame

SpecList == Init /\ [][ListNext]_vars

\* C19: whatever the outcome of the count request, the row count a load of
\* the table list reports for a table that contains rows is not 0.
C19_CountNotZero ==
  [][\A u \in Users, outcome \in LoadOutcomes :
       loadTables(u, outcome) =>
         \A t \in tables'[u] : RowsOf(u, t) # {} => Chip(u, t)' # 0]_vars

(***************************************************************************)
(* Record actions of the table page                                        *)
(***************************************************************************)
\* TablePage.handleDeleteRecord (the grid offers it to admins): a message,
\* and no request
handleDeleteRecord(u, recordId, rowData) ==
  /\ isAdmin(u)
  /\ rowData \in UNION {RowsOf(u, t) : t \in Tables}
  /\ recordId = rowData[PrimaryKey]
  /\ notice' = [notice EXCEPT ![u] =
                  Some([kind |-> "info",
                        text |-> "Delete functionality will be implemented in the approval workflow"])]
  /\ UNCHANGED <<serverVars, clientVars>>

GridRows == UNION {rows[e][t] : e \in Environments, t \in Tables}

GridNext ==
  \/ \E u \in Users, input \in FormInput :
       onSubmit(u, FALSE, InitialRow, input) /\ UNCHANGED toolVars
  \/ \E u \in Users, r \in GridRows, input \in FormInput :
       onSubmit(u, TRUE, r, input) /\ UNCHANGED toolVars
  \/ \E u \in Users, r \in GridRows :
       handleDeleteRecord(u, r[PrimaryKey], r) /\ UNCHANGED noticeFrame
  \/ \E u \in Users : loadPendingChanges(u) /\ UNCHANGED toolVars
  \/ \E u \in Users, id \in ChangeIds : handleQuickApprove(u, id) /\ UNCHANGED toolVars
  \/ \E h \in HandlerIds : ApproveGuard(h) /\ UNCHANGED toolVars
  \/ \E h \in HandlerIds : ApproveMutate(h) /\ UNCHANGED toolVars
  \/ \E h \in HandlerIds : ApproveCommit(h) /\ UNCHANGED toolVars
  \/ \E h \in HandlerIds : ApproveFail(h) /\ UNCHANGED toolVars

SpecGrid == Init /\ [][GridNext]_vars

\* the step submits one new change request of the operation on the record
\* and changes no table
SubmitsChange(u, op, key) ==
  /\ Len(change_requests') = Len(change_requests) + 1
  /\ change_requests'[Len(change_requests')].operation = op
  /\ change_requests'[Len(change_requests')].record_id = key
  /\ change_requests'[Len(change_requests')].requested_by = u
  /\ change_requests'[Len(change_requests')].status = "PENDING"
  /\ rows' = rows

\* C20: every create, update and delete action a user triggers on a record
\* submits a new change request for that record and changes no data directly.
C20_ActionsCreateRequests ==
  [][Len(change_requests) < MaxChanges =>
       \A u \in Users, r \in GridRows :
         /\ \A input \in FormInput :
              (/\ validateRecordData([c \in Columns |-> IF c = PrimaryKey THEN "" ELSE input[c]],
                                     RequiredFields) = {}
               /\ onSubmit(u, FALSE, InitialRow, input)) => SubmitsChange(u, "CREATE", NULLV)
         /\ \A input \in FormInput :
              (/\ validateRecordData([c \in Columns |-> IF c = PrimaryKey THEN r[c] ELSE input[c]],
                                     RequiredFields) = {}
               /\ onSubmit(u, TRUE, r, input)) => SubmitsChange(u, "UPDATE", r[PrimaryKey])
         /\ handleDeleteRecord(u, r[PrimaryKey], r) => SubmitsChange(u, "DELETE", r[PrimaryKey])]_vars

\* the create and update actions of the page do submit their requests
GridEditsSubmit ==
  [][Len(change_requests) < MaxChanges =>
       \A u \in Users, r \in GridRows :
         /\ \A input \in FormInput :
              (/\ validateRecordData([c \in Columns |-> IF c = PrimaryKey THEN "" ELSE input[c]],
                                     RequiredFields) = {}
               /\ onSubmit(u, FALSE, InitialRow, input)) => SubmitsChange(u, "CREATE", NULLV)
         /\ \A input \in FormInput :
              (/\ validateRecordData([c \in Columns |-> IF c = PrimaryKey THEN r[c] ELSE input[c]],
                                     RequiredFields) = {}
               /\ onSubmit(u, TRUE, r, input)) => SubmitsChange(u, "UPDATE", r[PrimaryKey])]_vars

(***************************************************************************)
(* Snapshots page                                                          *)
(***************************************************************************)
\* the snapshots the metadata store holds
StoredSnapshots == {i \in 1..Len(snapshots) : i \notin deleted}

\* SnapshotService.getSnapshots / deleteSnapshot
getSnapshots == [method |-> "GET", path |-> <<"snapshots">>, body |-> << >>]
deleteSnapshot(snapshotId) ==
  [method |-> "DELETE", path |-> <<"snapshots", PathId(snapshotId)>>, body |-> << >>]

\* DELETE /snapshots/{id}: "Delete a snapshot (admin only)"
DeleteSnapshotOutcome(u, req) ==
  CASE ~(req.method = "DELETE" /\ Len(req.path) = 2 /\ req.path[1] = "snapshots")
         -> "NotFoundError"
    [] Role(u) # "admin" -> "PermissionDeniedError"
    [] ChangeKey(req.path[2]) \notin StoredSnapshots -> "NotFoundError"
    [] OTHER -> "ok"

\* SnapshotsPage.loadSnapshots
loadSnapshots(u) ==
  /\ isAdmin(u)
  /\ getSnapshots.method = "GET"
  /\ snapshotList' = [snapshotList EXCEPT ![u] = StoredSnapshots]
  /\ UNCHANGED <<serverVars, clientVars, deleted>>

\* SnapshotsPage.handleDeleteSnapshot: window.confirm, deleteSnapshot, reload
handleDeleteSnapshot(u, snapshotId, confirmed) ==
  /\ isAdmin(u)
  /\ snapshotId \in snapshotList[u]
  /\ IF ~confirmed
     THEN UNCHANGED <<serverVars, clientVars, deleted, snapshotList>>
     ELSE /\ IF DeleteSnapshotOutcome(u, deleteSnapshot(snapshotId)) = "ok"
             THEN /\ deleted' = deleted \cup {snapshotId}
                  /\ snapshotList' = [snapshotList EXCEPT ![u] = StoredSnapshots \ {snapshotId}]
             ELSE UNCHANGED <<deleted, snapshotList>>
          /\ UNCHANGED <<serverVars, clientVars>>

\* the approval workflow as far as the Snapshots page needs it: requests are
\* created, approved from the list, and their snapshots listed and deleted
SnapshotsNext ==
  \/ \E u \in Users, input \in FormInput :
       onSubmit(u, FALSE, InitialRow, input) /\ UNCHANGED toolVars
  \/ \E u \in Users : loadPendingChanges(u) /\ UNCHANGED toolVars
  \/ \E u \in Users, id \in ChangeIds : handleQuickApprove(u, id) /\ UNCHANGED toolVars
  \/ \E u \in Users, id \in ChangeIds : handleQuickReject(u, id) /\ UNCHANGED toolVars
  \/ \E h \in HandlerIds : ApproveGuard(h) /\ UNCHANGED toolVars
  \/ \E h \in HandlerIds : ApproveMutate(h) /\ UNCHANGED toolVars
  \/ \E h \in HandlerIds : ApproveCommit(h) /\ UNCHANGED toolVars
  \/ \E h \in HandlerIds : ApproveFail(h) /\ UNCHANGED toolVars
  \/ \E u \in Users : loadSnapshots(u) /\ UNCHANGED snapshotFrame
  \/ \E u \in Users, i \in 1..Len(snapshots), c \in BOOLEAN :
       handleDeleteSnapshot(u, i, c) /\ UNCHANGED snapshotFrame

SpecSnapshots == Init /\ [][SnapshotsNext]_vars

StoredSnapshotsOf(id) == {i \in StoredSnapshots : snapshots[i].change_request_id = id}

\* C11: every APPROVED change request has exactly one Snapshot, every PENDING
\* or REJECTED one has none, and no step modifies or removes a Snapshot the
\* store holds.
C11_SnapshotsKept ==
  [][/\ \A i \in StoredSnapshots :
          i \notin deleted' /\ snapshots'[i] = snapshots[i]
     /\ \A id \in ChangeIds :
          Cardinality(StoredSnapshotsOf(id)) = IF Status(id) = "APPROVED" THEN 1 ELSE 0]_vars

(***************************************************************************)
(* Authentication: tokenStorage, AuthService, useAuth, PrivateRoute        *)
(***************************************************************************)
MaxClock == 3            \* half seconds the clock may reach
TokenLifetime == 1       \* seconds for which the server issues a token

\* one dot-separated segment of a stored token: whether atob accepts it,
\* whether JSON.parse accepts what atob returns, whether the parsed value is
\* an object, and its exp and sub fields
Segment(base64, json, object, exp, sub) ==
  [base64 |-> base64, json |-> json, object |-> object, exp |-> exp, sub |-> sub]

Opaque == Segment(FALSE, FALSE, FALSE, None, "")
Jwt(sub, exp) == <<Opaque, Segment(TRUE, TRUE, TRUE, Some(exp), sub), Opaque>>

\* what localStorage may hold when the page is opened
StoredTokens ==
  {<<Opaque>>,                                                  \* 'invalid-token'
   <<Opaque, Opaque, Opaque>>,                                  \* payload is not base64
   <<Opaque, Segment(TRUE, FALSE, FALSE, None, ""), Opaque>>,   \* payload is not JSON
   <<Opaque, Segment(TRUE, TRUE, FALSE, None, ""), Opaque>>,    \* payload is the JSON null
   <<Opaque, Segment(TRUE, TRUE, TRUE, None, "admin"), Opaque>>}\* payload without exp
  \cup {Jwt(u, n) : u \in Users, n \in 0 .. 1}

\* isAuthenticated comparing with >= instead of >
isAuthenticated_inclusive ==
  IF storedToken = None THEN FALSE
  ELSE LET token == storedToken[1]
       IN IF Len(token) < 2 THEN FALSE
          ELSE IF ~token[2].base64 \/ ~token[2].json \/ ~token[2].object THEN FALSE
          ELSE IF token[2].exp = None THEN FALSE
          ELSE token[2].exp[1] * 2 >= clock

\* AuthService.isAuthenticated; Date.now() / 1000 is clock / 2
isAuthenticated ==
  IF storedToken = None THEN FALSE
  ELSE LET token == storedToken[1]
       IN IF Len(token) < 2 THEN FALSE                   \* atob(undefined) throws
          ELSE IF ~token[2].base64 \/ ~token[2].json \/ ~token[2].object THEN FALSE
          ELSE IF token[2].exp = None THEN FALSE          \* undefined > currentTime
          ELSE token[2].exp[1] * 2 > clock

\* useAuth: isAuthenticated, isAdmin and checkRole of one component
useAuth_isAuthenticated(c) == isAuthenticated /\ authUser[c] # None
useAuth_isAdmin(c) == authUser[c] # None /\ Role(authUser[c][1]) = "admin"
checkRole(c, requiredRole) ==
  IF authUser[c] = None THEN FALSE
  ELSE IF Role(authUser[c][1]) = "admin" THEN TRUE
  ELSE Role(authUser[c][1]) = requiredRole

\* PrivateRoute without its adminOnly check
PrivateRoute_noAdminCheck(adminOnly, requiredRole) ==
  IF isLoading["PrivateRoute"] THEN "spinner"
  ELSE IF ~useAuth_isAuthenticated("PrivateRoute") THEN "redirect"
  ELSE IF requiredRole # UNDEF /\ ~checkRole("PrivateRoute", requiredRole) THEN "denied"
  ELSE "children"

\* PrivateRoute: what it returns
PrivateRoute(adminOnly, requiredRole) ==
  IF isLoading["PrivateRoute"] THEN "spinner"
  ELSE IF ~useAuth_isAuthenticated("PrivateRoute") THEN "redirect"
  ELSE IF adminOnly /\ ~useAuth_isAdmin("PrivateRoute") THEN "denied"
  ELSE IF requiredRole # UNDEF /\ ~checkRole("PrivateRoute", requiredRole) THEN "denied"
  ELSE "children"

\* App: the routes behind a PrivateRoute, and those with adminOnly
AppRoutes ==
  {"/dashboard", "/tables", "/tables/:tableName", "/approvals", "/approvals/:changeId",
   "/snapshots"}
AdminOnly(p) == p \in {"/approvals", "/approvals/:changeId", "/snapshots"}

\* the routes that are visited
PrivatePaths == {"/dashboard", "/approvals"}

\* the element of the current route
Element == PrivateRoute(AdminOnly(pathname), UNDEF)

\* the server: a bearer token is accepted when the server issued it and it
\* has not expired
Verified(bearer) ==
  /\ bearer # None
  /\ \E u \in Users, n \in 0 .. MaxClock : bearer[1] = Jwt(u, n) /\ n * 2 > clock

Credentials == {[username |-> u, valid |-> b] : u \in Users, b \in BOOLEAN}

Request(c, call, credentials) ==
  [hook |-> c, call |-> call, bearer |-> storedToken, credentials |-> credentials]

NoCredentials == [username |-> "", valid |-> FALSE]

\* the statuses a request may be answered with: the server's answer, or a failure
Statuses(r) ==
  CASE r.call = "me" -> IF Verified(r.bearer) THEN {200, 500} ELSE {401, 500}
    [] r.call = "login" -> IF r.credentials.valid THEN {200, 500} ELSE {401, 500}

\* api.ts, response interceptor: the token and the window after an error
\* response, and the structured error it rejects with
InterceptedToken(status) == IF status = 401 THEN None ELSE storedToken
InterceptedUnloading(status) == unloading \/ status = 401
errorDetails(status) ==
  [isError |-> FALSE,
   message |-> IF status = 401 THEN "Invalid credentials" ELSE "Internal server error"]

\* String(error)
StringOf(error) ==
  IF error.isError THEN <<"Error: ", error.message>> ELSE <<"[object Object]">>

\* AuthService.login, catch branch: the message of the Error it throws
LoginFailed(error) == <<"Login failed: ", error.message>>

\* requests of unmounted components stay in flight; their setState calls are lost
Orphaned(requests, gone) ==
  {IF r.hook \in gone THEN [r EXCEPT !.hook = "unmounted"] ELSE r : r \in requests}

\* a component is mounted: useState initial values, then the initAuth effect
mount(c) ==
  /\ c \notin mounted
  /\ CASE c = "Login" -> pathname = "/login"
       [] c = "PrivateRoute" -> pathname \in PrivatePaths
       [] c = "Layout" -> "PrivateRoute" \in mounted /\ rendered = "children"
  /\ mounted' = mounted \cup {c}
  /\ authUser' = [authUser EXCEPT ![c] = None]
  /\ IF isAuthenticated
     THEN /\ inflight' = inflight \cup {Request(c, "me", NoCredentials)}
          /\ isLoading' = [isLoading EXCEPT ![c] = TRUE]
     ELSE /\ inflight' = inflight
          /\ isLoading' = [isLoading EXCEPT ![c] = FALSE]
  /\ UNCHANGED <<storedToken, clock, pathname, unloading, thrown, loggedOut>>
  /\ rendered' = IF c = "PrivateRoute" THEN Element' ELSE rendered
  /\ UNCHANGED <<serverVars, clientVars>>

\* the answer to a request arrives: the interceptor, then the caller
\* (AuthService.login and useAuth.login, or getCurrentUser and initAuth)
respond(r, status) ==
  /\ r \in inflight
  /\ status \in Statuses(r)
  /\ inflight' = inflight \ {r}
  /\ UNCHANGED <<clock, pathname, mounted>>
  /\ isLoading' = [c \in AuthHooks |-> IF c = r.hook THEN FALSE ELSE isLoading[c]]
  /\ CASE r.call = "login" /\ status = 200 ->
            /\ storedToken' = Some(Jwt(r.credentials.username, (clock \div 2) + TokenLifetime))
            /\ authUser' = [c \in AuthHooks |->
                              IF c = r.hook THEN Some(r.credentials.username) ELSE authUser[c]]
            /\ loggedOut' = FALSE
            /\ UNCHANGED <<unloading, thrown>>
       [] r.call = "login" /\ status # 200 ->
            /\ storedToken' = InterceptedToken(status)
            /\ unloading' = InterceptedUnloading(status)
            /\ thrown' = Some(LoginFailed(errorDetails(status)))
            /\ authUser' = [c \in AuthHooks |-> IF c = r.hook THEN None ELSE authUser[c]]
            /\ UNCHANGED loggedOut
       [] r.call = "me" /\ status = 200 ->
            /\ authUser' = [c \in AuthHooks |->
                              IF c = r.hook THEN Some(r.bearer[1][2].sub) ELSE authUser[c]]
            /\ UNCHANGED <<storedToken, unloading, thrown, loggedOut>>
       [] r.call = "me" /\ status # 200 ->
            \* initAuth catches the failure and calls authService.logout()
            /\ storedToken' = None
            /\ unloading' = TRUE
            /\ loggedOut' = TRUE
            /\ UNCHANGED <<authUser, thrown>>
  /\ rendered' = IF r.hook = "PrivateRoute" THEN Element' ELSE rendered
  /\ UNCHANGED <<serverVars, clientVars>>

\* Login page, handleSubmit: useAuth.login up to its await
login(credentials) ==
  /\ "Login" \in mounted
  /\ ~isLoading["Login"]
  /\ isLoading' = [isLoading EXCEPT !["Login"] = TRUE]
  /\ inflight' = inflight \cup {Request("Login", "login", credentials)}
  /\ UNCHANGED <<storedToken, clock, pathname, unloading, authUser, mounted, rendered,
                 thrown, loggedOut>>
  /\ UNCHANGED <<serverVars, clientVars>>

\* Login page, effect: navigate(from) once authenticated
loginRedirect(from) ==
  /\ "Login" \in mounted
  /\ useAuth_isAuthenticated("Login") /\ ~isLoading["Login"]
  /\ pathname' = from
  /\ mounted' = {}
  /\ inflight' = Orphaned(inflight, mounted)
  /\ rendered' = "nothing"
  /\ UNCHANGED <<storedToken, clock, unloading, authUser, isLoading, thrown, loggedOut>>
  /\ UNCHANGED <<serverVars, clientVars>>

\* PrivateRoute returned <Navigate to="/login">
redirect ==
  /\ "PrivateRoute" \in mounted
  /\ rendered = "redirect"
  /\ pathname' = "/login"
  /\ mounted' = {}
  /\ inflight' = Orphaned(inflight, mounted)
  /\ rendered' = "nothing"
  /\ UNCHANGED <<storedToken, clock, unloading, authUser, isLoading, thrown, loggedOut>>
  /\ UNCHANGED <<serverVars, clientVars>>

\* Sidebar link: another private route, same PrivateRoute and Layout instances
navigate(p) ==
  /\ "Layout" \in mounted
  /\ p \in PrivatePaths /\ p # pathname
  /\ pathname' = p
  /\ UNCHANGED <<storedToken, clock, unloading, authUser, isLoading, thrown, loggedOut>>
  /\ rendered' = Element'
  /\ mounted' = IF rendered' = "children" THEN mounted ELSE mounted \ {"Layout"}
  /\ inflight' = Orphaned(inflight, mounted \ mounted')
  /\ UNCHANGED <<serverVars, clientVars>>

\* Layout, handleLogout: useAuth.logout, which calls AuthService.logout
logout ==
  /\ "Layout" \in mounted
  /\ authUser' = [authUser EXCEPT !["Layout"] = None]
  /\ storedToken' = None
  /\ unloading' = TRUE
  /\ loggedOut' = TRUE
  /\ UNCHANGED <<clock, pathname, isLoading, mounted, inflight, rendered, thrown>>
  /\ UNCHANGED <<serverVars, clientVars>>

\* the browser has fetched /login: the old page and its requests are gone
reload ==
  /\ unloading
  /\ unloading' = FALSE
  /\ pathname' = "/login"
  /\ mounted' = {}
  /\ authUser' = [c \in AuthHooks |-> None]
  /\ isLoading' = [c \in AuthHooks |-> TRUE]
  /\ inflight' = {}
  /\ rendered' = "nothing"
  /\ thrown' = None
  /\ UNCHANGED <<storedToken, clock, loggedOut>>
  /\ UNCHANGED <<serverVars, clientVars>>

\* half a second passes
tick ==
  /\ clock < MaxClock
  /\ clock' = clock + 1
  /\ UNCHANGED <<storedToken, pathname, unloading, authUser, isLoading, mounted, inflight,
                 rendered, thrown, loggedOut>>
  /\ UNCHANGED <<serverVars, clientVars>>

\* the page is opened at any route, with whatever localStorage holds
AuthInit ==
  /\ WorkflowInit
  /\ SnapshotInit
  /\ DiffIdle
  /\ QueryInit
  /\ TabInit
  /\ NoticeInit
  /\ ListInit
  /\ ErrorInit
  /\ PageInit
  /\ EnvInit
  /\ storedToken \in {None} \cup {Some(k) : k \in StoredTokens}
  /\ clock = 0
  /\ pathname \in PrivatePaths \cup {"/login"}
  /\ unloading = FALSE
  /\ authUser = [c \in AuthHooks |-> None]
  /\ isLoading = [c \in AuthHooks |-> TRUE]
  /\ mounted = {}
  /\ inflight = {}
  /\ rendered = "nothing"
  /\ thrown = None
  /\ loggedOut = FALSE

AuthNext ==
  \/ \E c \in AuthHooks : mount(c) /\ UNCHANGED authFrame
  \/ \E r \in inflight, status \in {200, 401, 500} : respond(r, status) /\ UNCHANGED authFrame
  \/ \E credentials \in Credentials : login(credentials) /\ UNCHANGED authFrame
  \/ \E from \in PrivatePaths : loginRedirect(from) /\ UNCHANGED authFrame
  \/ redirect /\ UNCHANGED authFrame
  \/ \E p \in PrivatePaths : navigate(p) /\ UNCHANGED authFrame
  \/ logout /\ UNCHANGED authFrame
  \/ reload /\ UNCHANGED authFrame
  \/ tick /\ UNCHANGED authFrame

SpecAuth == AuthInit /\ [][AuthNext]_vars

\* PrivateRoute is rendered again in this step: it is mounted and its props
\* or the state of its useAuth changed
Rerendered ==
  /\ "PrivateRoute" \in mounted'
  /\ <<"PrivateRoute" \in mounted, authUser["PrivateRoute"], isLoading["PrivateRoute"], pathname>>'
       # <<"PrivateRoute" \in mounted, authUser["PrivateRoute"], isLoading["PrivateRoute"], pathname>>

\* the user of PrivateRoute's useAuth has one of these roles
HasRole(roles) ==
  authUser["PrivateRoute"] # None /\ Role(authUser["PrivateRoute"][1]) \in roles

\* C21: whenever PrivateRoute is rendered, with any props, it returns its
\* children only if the authentication check has finished, the user is
\* authenticated, is an admin when adminOnly is set, and has the required
\* role or is an admin when requiredRole is given; it returns the redirect to
\* /login when the check has finished and the user is not authenticated; and
\* the children of /approvals, /approvals/:changeId and /snapshots are on
\* screen only for an admin.
C21_ProtectedRoutes ==
  [][/\ Rerendered =>
          /\ rendered' = Element'
          /\ \A adminOnly \in BOOLEAN, requiredRole \in {UNDEF, "admin", "regular_user"} :
               /\ PrivateRoute(adminOnly, requiredRole)' = "children" =>
                    /\ ~isLoading'["PrivateRoute"]
                    /\ isAuthenticated' /\ authUser'["PrivateRoute"] # None
                    /\ adminOnly => HasRole({"admin"})'
                    /\ requiredRole # UNDEF => HasRole({requiredRole, "admin"})'
               /\ (~isLoading'["PrivateRoute"] /\ ~useAuth_isAuthenticated("PrivateRoute")')
                    => PrivateRoute(adminOnly, requiredRole)' = "redirect"
          /\ \A p \in AppRoutes :
               (AdminOnly(p) /\ PrivateRoute(AdminOnly(p), UNDEF)' = "children")
                 => HasRole({"admin"})'
     /\ (rendered' = "children" /\ AdminOnly(pathname')) => HasRole({"admin"})'
     /\ (rendered = "redirect" /\ pathname' # pathname) => pathname' = "/login"]_vars

\* an admin sees the pending approvals
C21_Witness ==
  /\ rendered = "children" /\ pathname = "/approvals"
  /\ authUser["PrivateRoute"] = Some("admin")
  /\ "Layout" \in mounted

\* the payload segment of a token decodes to JSON
DecodesToJson(token) ==
  IF Len(token) < 2 THEN FALSE ELSE token[2].base64 /\ token[2].json

\* the exp of a decoded payload, None when it has none
ExpOf(token) == IF token[2].object THEN token[2].exp ELSE None

\* C22: isAuthenticated() is true exactly when a token is stored, its payload
\* segment decodes to JSON and the payload's exp is strictly greater than the
\* current time in seconds; it is false without a token, with a malformed
\* token and with an expired token.
C22_IsAuthenticated ==
  /\ isAuthenticated =
       (/\ storedToken # None
        /\ DecodesToJson(storedToken[1])
        /\ ExpOf(storedToken[1]) # None
        /\ ExpOf(storedToken[1])[1] * 2 > clock)
  /\ storedToken = None => ~isAuthenticated
  /\ (storedToken # None /\ ~DecodesToJson(storedToken[1])) => ~isAuthenticated
  /\ \A u \in Users, n \in 0 .. MaxClock :
       (storedToken = Some(Jwt(u, n)) /\ n * 2 <= clock) => ~isAuthenticated

\* the Login page was mounted at the very second a stored token expires, and
\* its initAuth found nobody authenticated
C22_Witness ==
  /\ \E u \in Users : storedToken = Some(Jwt(u, 1))
  /\ clock = 2
  /\ "Login" \in mounted /\ ~isLoading["Login"] /\ authUser["Login"] = None
  /\ inflight = {}

\* a failed login leaves the storage without a new token, and a token is
\* stored only by the successful answer of a login (holds)
LoginStoresOnSuccessOnly ==
  [][/\ \A r \in inflight, status \in {401, 500} :
          (respond(r, status) /\ r.call = "login") => storedToken' \in {storedToken, None}
     /\ (storedToken' # storedToken /\ storedToken' # None) =>
          \E r \in inflight : r.call = "login" /\ respond(r, 200)]_vars

\* C23: when the login call fails, login rejects with an Error whose message
\* is 'Login failed: ' followed by the string form of the underlying error
\* (for Error('Invalid credentials'): 'Login failed: Error: Invalid
\* credentials') and no token is written to storage; a token is stored only
\* after a successful response.
C23_LoginFailure ==
  [][/\ \A r \in inflight, status \in {401, 500} :
          (respond(r, status) /\ r.call = "login") =>
             /\ thrown' = Some(<<"Login failed: ">> \o StringOf(errorDetails(status)))
             /\ LoginFailed([isError |-> TRUE, message |-> "Invalid credentials"])
                  = <<"Login failed: ", "Error: ", "Invalid credentials">>
             /\ storedToken' \in {storedToken, None}
     /\ (storedToken' # storedToken /\ storedToken' # None) =>
          \E r \in inflight : r.call = "login" /\ respond(r, 200)]_vars

\* logout removes the stored token and sends the browser to /login, and
\* isAuthenticated stays false until a login succeeds (holds)
LogoutClearsToken ==
  [][/\ logout => (storedToken' = None /\ unloading')
     /\ loggedOut' => ~isAuthenticated']_vars

\* C24: logout removes the stored token and sends the browser to /login; from
\* then on, until a later login succeeds, isAuthenticated is false and the
\* user held by the useAuth that logged out is null.
C24_LoggedOut ==
  [][/\ logout => (storedToken' = None /\ unloading')
     /\ loggedOut' => (~isAuthenticated' /\ authUser'["Layout"] = None)]_vars

\* the interceptor itself removes the token on 401 and on no other status,
\* and after every 401 answer nobody is authenticated (holds)
InterceptorRemovesOn401 ==
  [][\A r \in inflight, status \in {200, 401, 500} :
       respond(r, status) =>
         /\ status = 401 => (storedToken' = None /\ unloading' /\ ~isAuthenticated')
         /\ status # 401 => InterceptedToken(status) = storedToken]_vars

\* C26: whenever a response (a failed login included) has status 401, the
\* stored token is removed and the browser is sent to /login, so
\* isAuthenticated() is false afterwards; a response with any other status
\* never removes the token.
C26_TokenRemovedOn401Only ==
  [][\A r \in inflight, status \in {200, 401, 500} :
       respond(r, status) =>
         /\ status = 401 => (storedToken' = None /\ unloading' /\ ~isAuthenticated')
         /\ status # 401 => (storedToken # None => storedToken' # None)]_vars

(***************************************************************************)
(* useErrorHandler                                                         *)
(***************************************************************************)
MaxErrorCalls == 3       \* calls made on one useErrorHandler

\* the values setError and showErrorSnackbar are called with: strings, Error
\* objects, structured errors and null
StructuredErrors ==
  {[message |-> "Database error", code |-> "DATABASE_ERROR", status_code |-> 500,
    request_id |-> "req-123"],
   [message |-> "Database error"]}

ErrorInputs ==
  {[type |-> "string", text |-> t] : t \in {"Test error message", ""}}
  \cup {[type |-> "Error", text |-> "Network error"]}
  \cup {[type |-> "object", object |-> o] : o \in StructuredErrors}
  \cup {[type |-> "null"]}

\* parseError reducing a structured error to its message
parseError_messageOnly(e) ==
  IF e.type = "string" THEN [message |-> e.text]
  ELSE IF e.type = "Error" THEN [message |-> e.text]
  ELSE [message |-> e.object.message]

\* useErrorHandler.parseError
parseError(e) ==
  IF e.type = "string" THEN [message |-> e.text]
  ELSE IF e.type = "Error" THEN [message |-> e.text]
  ELSE e.object

\* useErrorHandler.setError
setError(e) ==
  /\ Len(errorCalls) < MaxErrorCalls
  /\ errorState' = IF e.type = "null" THEN None ELSE Some(parseError(e))
  /\ errorCalls' = Append(errorCalls, <<"setError", e>>)
  /\ UNCHANGED <<serverVars, clientVars>>

\* useErrorHandler.clearError
clearError ==
  /\ Len(errorCalls) < MaxErrorCalls
  /\ errorState' = None
  /\ errorCalls' = Append(errorCalls, <<"clearError">>)
  /\ UNCHANGED <<serverVars, clientVars>>

\* useErrorHandler.showErrorSnackbar: a snackbar, the error state is not touched
showErrorSnackbar(e) ==
  /\ Len(errorCalls) < MaxErrorCalls
  /\ e.type # "null"
  /\ errorCalls' = Append(errorCalls, <<"showErrorSnackbar", parseError(e)>>)
  /\ UNCHANGED errorState
  /\ UNCHANGED <<serverVars, clientVars>>

ErrorNext ==
  \/ \E e \in ErrorInputs : setError(e) /\ UNCHANGED errorFrame
  \/ clearError /\ UNCHANGED errorFrame
  \/ \E e \in ErrorInputs : showErrorSnackbar(e) /\ UNCHANGED errorFrame

SpecError == Init /\ [][ErrorNext]_vars

\* C25: the error is null initially; setError with a string or an Error
\* stores {message: text}, setError with a structured error stores that
\* object unchanged, and clearError or setError(null) returns the state to
\* null, after any sequence of these calls.
C25_ErrorState ==
  /\ errorState = None
  /\ [][/\ \A e \in ErrorInputs :
             setError(e) =>
               CASE e.type \in {"string", "Error"} -> errorState' = Some([message |-> e.text])
                 [] e.type = "object" -> errorState' = Some(e.object)
                 [] e.type = "null" -> errorState' = None
        /\ clearError => errorState' = None]_vars

\* a structured error was stored after other calls, then cleared
C25_Witness ==
  /\ Len(errorCalls) = 3
  /\ errorCalls[1] = <<"setError", [type |-> "string", text |-> "Test error message"]>>
  /\ errorCalls[2][1] = "setError" /\ errorCalls[2][2].type = "object"
  /\ errorCalls[3] = <<"clearError">>
  /\ errorState = None

(***************************************************************************)
(* DataGrid pagination                                                     *)
(***************************************************************************)
MaxPageChanges == 3      \* pagination changes made by the user
LastPage == 2            \* pages 0 .. LastPage are visited
PageSizes == {2, 3}      \* rows per page offered (25, 50 in the grid)

\* the rows of the table, and the rows GET /tables/{t}/data returns for a
\* limit and an offset
GridTable == <<"r1", "r2", "r3", "r4", "r5", "r6", "r7", "r8", "r9">>
Slice(limit, offset) ==
  SubSeq(GridTable, offset + 1,
         IF offset + limit < Len(GridTable) THEN offset + limit ELSE Len(GridTable))

GridPaginationModels == [page : 0 .. LastPage, pageSize : PageSizes]

\* a || b on numbers
OrNumber(a, b) == IF a # 0 THEN a ELSE b

\* DataGrid.loadData(pagination): the PaginationParams it requests; closure is
\* the paginationModel of the render that created this loadData
PaginationParams(pagination, closure) ==
  [limit |-> OrNumber(pagination.pageSize, closure.pageSize),
   offset |-> OrNumber(pagination.page, closure.page)
                * OrNumber(pagination.pageSize, closure.pageSize)]

\* DataGrid.handlePaginationModelChange: setPaginationModel(newModel) and
\* loadData(newModel) with the loadData of the current render; the new
\* paginationModel makes a new loadData, and the effect calls it with no argument
handlePaginationModelChange(newModel) ==
  /\ pageChanges < MaxPageChanges
  /\ newModel # paginationModel
  /\ paginationModel' = newModel
  /\ outstanding' = outstanding \cup {PaginationParams(newModel, paginationModel),
                                      PaginationParams(newModel, newModel)}
  /\ pageChanges' = pageChanges + 1
  /\ UNCHANGED tableData
  /\ UNCHANGED <<serverVars, clientVars>>

\* an answer of getTableData arrives: setTableData(data)
setTableData(request) ==
  /\ request \in outstanding
  /\ outstanding' = outstanding \ {request}
  /\ tableData' = Some(Slice(request.limit, request.offset))
  /\ UNCHANGED <<paginationModel, pageChanges>>
  /\ UNCHANGED <<serverVars, clientVars>>

PageNext ==
  \/ \E newModel \in GridPaginationModels : handlePaginationModelChange(newModel) /\ UNCHANGED pageFrame
  \/ \E request \in outstanding : setTableData(request) /\ UNCHANGED pageFrame

SpecPage == Init /\ [][PageNext]_vars

\* C27: after a page or page-size change, once every outstanding
\* getTableData request has completed, the rows shown are those fetched with
\* limit = pageSize and offset = page * pageSize of the current
\* paginationModel, whatever the order of the answers.
C27_RowsOfCurrentPage ==
  (pageChanges > 0 /\ outstanding = {}) =>
     tableData = Some(Slice(paginationModel.pageSize,
                            paginationModel.page * paginationModel.pageSize))

\* QueryExecutor with the queries that have a required parameter
RequiredNext ==
  \/ \E id \in RequiredQueryIds : selectQuery(id) /\ UNCHANGED queryFrame
  \/ \E v \in {"", "Furniture"} : handleParameterChange("category", v) /\ UNCHANGED queryFrame
  \/ \E t \in Tables : QueryExecutor_handleExecute(t) /\ UNCHANGED queryFrame

SpecRequired == Init /\ [][RequiredNext]_vars

\* the required parameters of the selected query that have no default and
\* no value
MissingRequired ==
  {p \in ParametersOf(selectedQuery[1]) :
     /\ p.required
     /\ p.default \in {NULLV, UNDEF}
     /\ Get(parameters, p.name) \in {NULLV, UNDEF, ""}}

\* a required parameter whose default is null is reported when its value is
\* missing, and the query is not sent (holds)
RequiredWithNullDefault ==
  [][\A t \in Tables :
       (QueryExecutor_handleExecute(t) /\ \E p \in MissingRequired : p.default = NULLV)
         => /\ \A p \in MissingRequired : p.name \in DOMAIN parameterErrors'
            /\ UNCHANGED <<queryResult, queryError, ran>>]_vars

\* C29: validateParameter returns an error for every required parameter
\* without a default whose value is null, undefined or the empty string, so
\* QueryExecutor never sends a query with a required parameter missing.
C29_RequiredEnforced ==
  [][\A t \in Tables :
       (QueryExecutor_handleExecute(t) /\ MissingRequired # {})
         => /\ \A p \in MissingRequired :
                 /\ validateParameter(p, Get(parameters, p.name)) # None
                 /\ p.name \in DOMAIN parameterErrors'
            /\ UNCHANGED <<queryResult, queryError, ran>>]_vars

(***************************************************************************)
(* Environment selector: useEnvironment.switchEnvironment                  *)
(***************************************************************************)
MaxSwitches == 3         \* switchEnvironment calls made


\* Object.values(Environment)
EnvironmentValues == {"dev", "test", "stage", "prod"}

\* the environments the server lists (GET /environments); one of them is not
\* a member of the Environment enum
ServerEnvironments == Environments \cup {"qa"}

\* EnvironmentService.isValidEnvironment
isValidEnvironment(env) == env \in EnvironmentValues

\* how loadEnvironmentState ends: both calls answered, the second call
\* failed, or the first call failed
LoadAnswers == {"ok", "currentFailed", "failed"}

\* useEnvironment.loadEnvironmentState, from its calls to the finally
loadEnvironmentState(outcome) ==
  /\ envLoading /\ switching = None /\ switchOutcome # "ok"
  /\ availableEnvironments' = IF outcome = "failed" THEN EnvironmentValues
                                                    ELSE ServerEnvironments
  /\ currentEnvironment' =
       CASE outcome = "ok" -> currentEnv[EnvUser]
         [] outcome = "currentFailed" ->
              IF storedEnvironment # None /\ storedEnvironment[1] \in ServerEnvironments
              THEN storedEnvironment[1] ELSE "dev"
         [] OTHER -> "dev"
  /\ storedEnvironment' = IF outcome = "ok" THEN Some(currentEnv[EnvUser])
                                           ELSE storedEnvironment
  /\ envLoading' = FALSE
  /\ UNCHANGED <<selectedEnv, confirmDialogOpen, switching, switchOutcome, switchCount>>
  /\ UNCHANGED <<serverVars, clientVars>>

\* window.location.reload() after a successful switch: the hook and the
\* selector are mounted again with their initial state
reloadPage ==
  /\ switchOutcome = "ok"
  /\ currentEnvironment' = "dev"
  /\ availableEnvironments' = {}
  /\ envLoading' = TRUE
  /\ selectedEnv' = ""
  /\ confirmDialogOpen' = FALSE
  /\ switchOutcome' = "none"
  /\ UNCHANGED <<storedEnvironment, switching, switchCount>>
  /\ UNCHANGED <<serverVars, clientVars>>

\* the answers of POST /environments/switch: done, refused, or done with the
\* answer lost (timeout)
SwitchAnswers == {"ok", "failed", "timeout"}

\* switchEnvironment writing localStorage before the server call
AfterSwitch_persistFirst(env, outcome) ==
  [currentEnvironment |-> IF outcome = "ok" THEN env ELSE currentEnvironment,
   storedEnvironment |-> Some(env),
   isLoading |-> FALSE]

\* useEnvironment.switchEnvironment after the await: setCurrentEnvironment
\* and localStorage.setItem on success, nothing in the catch, and
\* setIsLoading(false) in the finally
AfterSwitch(env, outcome) ==
  [currentEnvironment |-> IF outcome = "ok" THEN env ELSE currentEnvironment,
   storedEnvironment |-> IF outcome = "ok" THEN Some(env) ELSE storedEnvironment,
   isLoading |-> FALSE]

\* EnvironmentSelector.handleEnvironmentChange
handleEnvironmentChange(env) ==
  /\ ~envLoading /\ ~confirmDialogOpen
  /\ env \in availableEnvironments
  /\ env # currentEnvironment
  /\ selectedEnv' = env
  /\ confirmDialogOpen' = TRUE
  /\ UNCHANGED <<currentEnvironment, storedEnvironment, envLoading, switching, switchOutcome,
                 switchCount, availableEnvironments>>
  /\ UNCHANGED <<serverVars, clientVars>>

\* EnvironmentSelector.handleCancelSwitch
handleCancelSwitch ==
  /\ confirmDialogOpen /\ switching = None
  /\ selectedEnv' = ""
  /\ confirmDialogOpen' = FALSE
  /\ UNCHANGED <<currentEnvironment, storedEnvironment, envLoading, switching, switchOutcome,
                 switchCount, availableEnvironments>>
  /\ UNCHANGED <<serverVars, clientVars>>

\* EnvironmentSelector.handleConfirmSwitch calling switchEnvironment(selectedEnv),
\* up to its await: an invalid name throws before the try block
handleConfirmSwitch ==
  /\ confirmDialogOpen /\ switching = None
  /\ switchCount < MaxSwitches
  /\ switchCount' = switchCount + 1
  /\ IF ~isValidEnvironment(selectedEnv)
     THEN /\ switchOutcome' = "invalid"
          /\ UNCHANGED <<envLoading, switching>>
     ELSE /\ envLoading' = TRUE
          /\ switching' = Some(selectedEnv)
          /\ switchOutcome' = "none"
  /\ UNCHANGED <<currentEnvironment, storedEnvironment, selectedEnv, confirmDialogOpen,
                 availableEnvironments>>
  /\ UNCHANGED <<serverVars, clientVars>>

\* the switch call is answered: the rest of switchEnvironment and of
\* handleConfirmSwitch, which closes the dialog unless the call threw
switchAnswered(outcome) ==
  /\ switching # None
  /\ switching' = None
  /\ switchOutcome' = outcome
  /\ currentEnv' = IF outcome \in {"ok", "timeout"}
                   THEN [currentEnv EXCEPT ![EnvUser] = switching[1]] ELSE currentEnv
  /\ currentEnvironment' = AfterSwitch(switching[1], outcome).currentEnvironment
  /\ storedEnvironment' = AfterSwitch(switching[1], outcome).storedEnvironment
  /\ envLoading' = AfterSwitch(switching[1], outcome).isLoading
  /\ confirmDialogOpen' = (outcome # "ok")
  /\ UNCHANGED <<selectedEnv, switchCount, availableEnvironments>>
  /\ UNCHANGED <<rows, nextRowId, change_requests, snapshots, handlers, applied, answer,
                 clientVars>>

EnvNext ==
  \/ \E outcome \in LoadAnswers : loadEnvironmentState(outcome) /\ UNCHANGED envFrame
  \/ \E env \in ServerEnvironments \cup EnvironmentValues :
       handleEnvironmentChange(env) /\ UNCHANGED envFrame
  \/ handleCancelSwitch /\ UNCHANGED envFrame
  \/ handleConfirmSwitch /\ UNCHANGED envFrame
  \/ \E outcome \in SwitchAnswers : switchAnswered(outcome) /\ UNCHANGED envFrame
  \/ reloadPage /\ UNCHANGED envFrame

SpecEnv == Init /\ [][EnvNext]_vars

\* C30: switchEnvironment changes nothing on failure: with a name that is not
\* dev, test, stage or prod it throws before any server call is made, and
\* when the server call fails the current environment and the selection in
\* localStorage stay as they were; in both cases isLoading is false once the
\* call has returned.
C30_FailedSwitchChangesNothing ==
  [][/\ (handleConfirmSwitch /\ ~isValidEnvironment(selectedEnv)) =>
          /\ switchOutcome' = "invalid"
          /\ switching' = None
          /\ UNCHANGED <<currentEnv, currentEnvironment, storedEnvironment>>
          /\ ~envLoading'
     /\ \A outcome \in {"failed", "timeout"} :
          switchAnswered(outcome) =>
            /\ UNCHANGED <<currentEnvironment, storedEnvironment>>
            /\ ~envLoading']_vars

\* a switch from prod to dev was refused by the server after an earlier call
\* with an invalid name
C30_Witness ==
  /\ switchOutcome = "failed" /\ switchCount = 2
  /\ selectedEnv = "dev" /\ confirmDialogOpen
  /\ currentEnvironment = "prod" /\ storedEnvironment = Some("prod")
  /\ ~envLoading

====
